---- MODULE Spec2Model ----
(***************************************************************************)
(* Model of the instruments registry and its flush engine                  *)
(* (src/registry.go), of the instruments it stores (src/instruments.go)    *)
(* and of the metric identifiers that key it (src/util.go).                *)
(*                                                                         *)
(* Strings are sequences of byte codes, so that MetricID is computed byte  *)
(* by byte as the Go code computes it.                                     *)
(*                                                                         *)
(* An instrument is modelled by its fields. Every instrument the model     *)
(* creates is a new object that one map holds under one key: the           *)
(* registry's map, or the map a flush cycle drained. User code keeps the   *)
(* pointers to the instruments it registered or fetched and updates them   *)
(* through these pointers, also after the registry has drained them. An    *)
(* instrument no map holds any more is never read again by the registry,   *)
(* and the model forgets it.                                               *)
(***************************************************************************)
EXTENDS Integers, Sequences, FiniteSets, TLC

VARIABLES
    instruments,   \* Registry.instruments: metric ID -> instrument
    reporters,     \* Registry.reporters: sequence of reporter ids
    errq,          \* number of errors buffered in Registry.errors
    errClosed,     \* Registry.errors has been closed
    closing,       \* Registry.closing has been closed
    closedCh,      \* Registry.closed: "empty", or the buffered result "nil"/"err"
    closedClosed,  \* Registry.closed has been closed
    closer,        \* the caller of Close: "none", "waiting", "returned"
    closeRes,      \* what Close returned: "none" (not yet), "nil", "err"
    panicked,      \* "none", or the run-time panic that ended the process
    fpc,           \* per user thread: the key of its Fetch between the read-locked
                   \* and the write-locked part, or NoKey
    lpc,           \* position of the loop goroutine
    mode,          \* what started the running cycle: "tick" or "final"
    reps,          \* flush(): the local copy of the reporter list
    ri,            \* flush(): index of the next reporter to call
    drained,       \* flush(): the entries of the map returned by reset() that the
                   \* range loop has not finished
    cur,           \* flush(): the key of the running iteration, or NoKey
    cerr,          \* flush(): TRUE when the cycle returned an error
    log,           \* history: the reporter calls of the running cycle, in order
    drainedKeys,   \* history: the keys of the map the running cycle drained
    atSwap,        \* history: for each entry of drained not yet handed to a
                   \* reporter, the value its instrument held at the drain swap
    sent,          \* history: the key last handed to reporters, the value it held
                   \* at the drain swap and the values the reporters got for it
    finals,        \* history: number of final cycles the loop has started
    dropped,       \* history: handleError dropped the error of the last periodic cycle
    hpc,           \* the typed helper call of user code: what it asked for, how far
                   \* it is and, once it has returned, the instrument it returned
    app,           \* the last application of a function of src/util.go or of the
                   \* naming lines of flush: its arguments and its results
    garr,          \* the slice Registry.tags: its backing array, as long as the
                   \* slice's capacity, and its length
    held,          \* the tag slices handed to reporters in one cycle, each with the
                   \* contents it had when it was handed over
    unit           \* an instrument used on its own, the threads that use it and
                   \* the history of their calls

\* the state of a registry and of its loop goroutine
registry == <<instruments, reporters, errq, errClosed, closing, closedCh,
              closedClosed, closer, closeRes, panicked, fpc, lpc, mode, reps,
              ri, drained, cur, cerr, log, drainedKeys, atSwap, sent, finals,
              dropped, hpc>>

\* the state of what is used without a running registry
standalone == <<app, garr, held, unit>>

vars == <<registry, standalone>>

-----------------------------------------------------------------------------
(* Bounds of the model *)

MaxCount == 1         \* largest counter value / number of reservoir updates
MaxFails == 1         \* errors Spec lets reporters add to the error channel
MaxNameLen == 3       \* longest metric name user code passes to SpecNaming
MaxTags == 2          \* longest tag list user code passes to SpecNaming
MaxSpare == 2         \* largest spare capacity of the slice passed to New
MaxHeld == 2          \* instruments SpecTags emits in one cycle
MaxCalls == 4         \* calls user code makes on an instrument used on its own
MaxAdds == 5          \* values added to a histogram since it was created or reset

Threads == {1, 2}
ReporterIds == {1, 2} \* the reporters user code subscribes, in this order
UpdateVals == {1}
ResSizes == {1}       \* the sizes user code passes to NewReservoir

(* Program constants *)
ErrorsCap == 10       \* make(chan error, 10)

defaultReservoirSize == 1028

Bar == 124            \* '|'
Comma == 44           \* ','

NoKey == <<0>>
EmptyMap == [k \in {} |-> 0]

(* The (name, tags) pairs user code passes: "f" with no tags, "b" with the *)
(* tags [b, a] and "b" with the tags [a, b].                               *)
Inputs ==
    { [name |-> <<102>>, tags |-> <<>>],
      [name |-> <<98>>,  tags |-> << <<98>>, <<97>> >>],
      [name |-> <<98>>,  tags |-> << <<97>>, <<98>> >>] }

Kinds == {"Counter", "Reservoir"}

Range(f) == {f[x] : x \in DOMAIN f}

-----------------------------------------------------------------------------
(* src/util.go *)

\* tags left in the order the caller gave them
SortStringsSkipped(s) == s

\* byte-wise comparison of two strings, as Go's < on strings
RECURSIVE StrLess(_, _)
StrLess(a, b) ==
    IF Len(b) = 0 THEN FALSE
    ELSE IF Len(a) = 0 THEN TRUE
    ELSE IF a[1] < b[1] THEN TRUE
    ELSE IF a[1] > b[1] THEN FALSE
    ELSE StrLess(Tail(a), Tail(b))

RECURSIVE InsertSorted(_, _)
InsertSorted(s, x) ==
    IF Len(s) = 0 THEN <<x>>
    ELSE IF StrLess(x, s[1]) THEN <<x>> \o s
    ELSE <<s[1]>> \o InsertSorted(Tail(s), x)

\* sort.Strings
RECURSIVE SortStrings(_)
SortStrings(s) ==
    IF Len(s) = 0 THEN <<>>
    ELSE InsertSorted(SortStrings(Tail(s)), s[1])

\* strings.Join(parts, ",")
RECURSIVE Join(_)
Join(parts) ==
    IF Len(parts) = 0 THEN <<>>
    ELSE IF Len(parts) = 1 THEN parts[1]
    ELSE parts[1] \o <<Comma>> \o Join(Tail(parts))

MetricID(name, tags) ==
    IF Len(tags) = 0 THEN name
    ELSE name \o <<Bar>> \o Join(SortStrings(tags))

KeyOf(i) == MetricID(i.name, i.tags)

\* strings.LastIndexByte: the 0-based index of the last byte c of s, or -1
LastIndexByte(s, c) ==
    LET at == {i \in 1..Len(s) : s[i] = c}
    IN IF at = {} THEN -1
       ELSE (CHOOSE i \in at : \A j \in at : j <= i) - 1

\* strings.Split(s, ","): the pieces of s between its commas; a string
\* with no comma, the empty string too, is one piece
RECURSIVE Split(_)
Split(s) ==
    LET at == {i \in 1..Len(s) : s[i] = Comma}
    IN IF at = {} THEN <<s>>
       ELSE LET i == CHOOSE x \in at : \A y \in at : x <= y
            IN <<SubSeq(s, 1, i - 1)>> \o Split(SubSeq(s, i + 1, Len(s)))

\* SplitMetricID; a nil tag list is the empty sequence
SplitMetricID(metricID) ==
    IF metricID = <<>> THEN [name |-> <<>>, tags |-> <<>>]
    ELSE LET pos == LastIndexByte(metricID, Bar)
         IN IF pos > 0 /\ pos < Len(metricID) - 1
            THEN [name |-> SubSeq(metricID, 1, pos),
                  tags |-> Split(SubSeq(metricID, pos + 2, Len(metricID)))]
            ELSE [name |-> metricID, tags |-> <<>>]

-----------------------------------------------------------------------------
(* src/instruments.go *)

Zeros(n) == [i \in 1..n |-> 0]

NewCounter == [kind |-> "Counter", count |-> 0, size |-> 0, values |-> <<>>]

NewReservoir(size) ==
    [kind |-> "Reservoir", count |-> 0, size |-> 0,
     values |-> Zeros(IF size <= 0 THEN defaultReservoirSize ELSE size)]

NewInstrument(kind, size) ==
    IF kind = "Counter" THEN NewCounter ELSE NewReservoir(size)

\* Counter.Update: atomic.AddInt64(&c.count, v)
CounterUpdate(rec, v) == [rec EXCEPT !.count = @ + v]

\* atomic.LoadInt64 in place of the swap: the count is read and kept
CounterSnapshotKeeps(rec) == [ret |-> rec.count, rec |-> rec]

\* Counter.Snapshot: atomic.SwapInt64(&c.count, 0)
CounterSnapshot(rec) ==
    [ret |-> rec.count, rec |-> [rec EXCEPT !.count = 0]]

\* Reservoir.Update; l is the value rand.Intn(s) returned
ReservoirUpdate(rec, v, l) ==
    LET s == rec.size + 1 IN
    IF s <= Len(rec.values)
    THEN [rec EXCEPT !.size = s, !.values[s] = v]
    ELSE IF l < Len(rec.values)
         THEN [rec EXCEPT !.size = s, !.values[l + 1] = v]
         ELSE [rec EXCEPT !.size = s]

Min2(a, b) == IF a <= b THEN a ELSE b

RECURSIVE InsertInt(_, _)
InsertInt(s, x) ==
    IF Len(s) = 0 THEN <<x>>
    ELSE IF x < s[1] THEN <<x>> \o s
    ELSE <<s[1]>> \o InsertInt(Tail(s), x)

RECURSIVE SortInts(_)
SortInts(s) ==
    IF Len(s) = 0 THEN <<>> ELSE InsertInt(SortInts(Tail(s)), s[1])

\* r.size is left as it is
ReservoirSnapshotKeeps(rec) ==
    [ret |-> SortInts(SubSeq(rec.values, 1, Min2(rec.size, Len(rec.values)))),
     rec |-> rec]

\* Reservoir.Snapshot
ReservoirSnapshot(rec) ==
    [ret |-> SortInts(SubSeq(rec.values, 1, Min2(rec.size, Len(rec.values)))),
     rec |-> [rec EXCEPT !.size = 0, !.values = Zeros(Len(rec.values))]]

\* inst.Snapshot(), whatever the instrument
Snapshot(rec) ==
    IF rec.kind = "Counter" THEN CounterSnapshot(rec) ELSE ReservoirSnapshot(rec)

-----------------------------------------------------------------------------
(* src/registry.go: the registry *)

NoInst == [kind |-> "none", count |-> 0, size |-> 0, values |-> <<>>]

NoCall == [key |-> NoKey, kind |-> "", size |-> 0, stage |-> "none", ret |-> NoInst]

NoSent == [key |-> NoKey, op |-> "", at |-> <<>>, got |-> <<>>]

NoApp == [fn |-> "none"]
NoSlice == [arr |-> <<>>, len |-> 0]

\* nothing is used on its own
NoStandalone ==
    /\ app = NoApp
    /\ garr = NoSlice
    /\ held = <<>>
    /\ unit = <<>>

\* New: the state after construction, the loop goroutine waiting in select
NewRegistry ==
    /\ instruments = EmptyMap
    /\ reporters = <<>>
    /\ errq = 0
    /\ errClosed = FALSE
    /\ closing = FALSE
    /\ closedCh = "empty"
    /\ closedClosed = FALSE
    /\ closer = "none"
    /\ closeRes = "none"
    /\ panicked = "none"
    /\ fpc = [t \in Threads |-> NoKey]
    /\ lpc = "select"
    /\ mode = "tick"
    /\ reps = <<>>
    /\ ri = 1
    /\ drained = EmptyMap
    /\ cur = NoKey
    /\ cerr = FALSE
    /\ log = <<>>
    /\ drainedKeys = {}
    /\ atSwap = EmptyMap
    /\ sent = NoSent
    /\ finals = 0
    /\ dropped = FALSE
    /\ hpc = NoCall

Init == NewRegistry /\ NoStandalone

\* an unrecovered panic ends the process: nothing of its state is left
Crash(reason) ==
    /\ panicked' = reason
    /\ instruments' = EmptyMap
    /\ reporters' = <<>>
    /\ errq' = 0
    /\ errClosed' = FALSE
    /\ closing' = FALSE
    /\ closedCh' = "empty"
    /\ closedClosed' = FALSE
    /\ closer' = "none"
    /\ closeRes' = "none"
    /\ fpc' = [t \in Threads |-> NoKey]
    /\ lpc' = "exited"
    /\ mode' = "tick"
    /\ reps' = <<>>
    /\ ri' = 1
    /\ drained' = EmptyMap
    /\ cur' = NoKey
    /\ cerr' = FALSE
    /\ log' = <<>>
    /\ drainedKeys' = {}
    /\ atSwap' = EmptyMap
    /\ sent' = NoSent
    /\ finals' = 0
    /\ dropped' = FALSE
    /\ hpc' = NoCall
    /\ UNCHANGED standalone

\* r.instruments[key] = v
MapStore(m, key, v) == [k \in DOMAIN m \cup {key} |-> IF k = key THEN v ELSE m[k]]

\* delete(r.instruments, key)
MapDelete(m, key) == [k \in DOMAIN m \ {key} |-> m[k]]

\* newInstrumentsMap: nothing ever puts a map into instrumentsMapPool
newInstrumentsMap == EmptyMap

\* Subscribe: append under the write lock
Subscribe(rep) ==
    /\ panicked = "none"
    /\ rep = Len(reporters) + 1
    /\ reporters' = Append(reporters, rep)
    /\ UNCHANGED <<instruments, errq, errClosed, closing, closedCh,
                   closedClosed, closer, closeRes, panicked, fpc, lpc, mode,
                   reps, ri, drained, cur, cerr, log, drainedKeys, atSwap, sent,
                   finals, dropped, hpc, standalone>>

\* an existing entry is kept
RegisterStoreKeep(m, key, v) ==
    IF key \in DOMAIN m THEN m ELSE MapStore(m, key, v)

\* Register: the cases of the type switch that store
RegisterStore(m, key, v) == MapStore(m, key, v)

\* Register with a newly constructed Counter or Reservoir
Register(i, kind, size) ==
    /\ panicked = "none"
    /\ instruments' = RegisterStore(instruments, KeyOf(i), NewInstrument(kind, size))
    /\ UNCHANGED <<reporters, errq, errClosed, closing, closedCh, closedClosed,
                   closer, closeRes, panicked, fpc, lpc, mode, reps, ri,
                   drained, cur, cerr, log, drainedKeys, atSwap, sent, finals, dropped, hpc, standalone>>

Unregister(i) ==
    /\ panicked = "none"
    /\ instruments' = MapDelete(instruments, KeyOf(i))
    /\ UNCHANGED <<reporters, errq, errClosed, closing, closedCh, closedClosed,
                   closer, closeRes, panicked, fpc, lpc, mode, reps, ri,
                   drained, cur, cerr, log, drainedKeys, atSwap, sent, finals, dropped, hpc, standalone>>

\* Fetch up to the release of the read lock: when it finds the key it returns
\* the instrument, else it goes on to the write lock
FetchRead(t, i) ==
    /\ panicked = "none"
    /\ fpc[t] = NoKey
    /\ fpc' = IF KeyOf(i) \in DOMAIN instruments
              THEN fpc
              ELSE [fpc EXCEPT ![t] = KeyOf(i)]
    /\ UNCHANGED <<instruments, reporters, errq, errClosed, closing, closedCh,
                   closedClosed, closer, closeRes, panicked, lpc, mode, reps, ri,
                   drained, cur, cerr, log, drainedKeys, atSwap, sent, finals, dropped, hpc, standalone>>

\* a Fetch without its second check
FetchRecheckSkipped(m, key) == FALSE

\* Fetch, second check: v, ok = r.instruments[key] under the write lock
FetchRecheck(m, key) == key \in DOMAIN m

\* Fetch under the write lock: v is what it returns, m the map it leaves,
\* made whether it invoked the factory, which builds new
FetchLocked(m, key, new) ==
    IF FetchRecheck(m, key)
    THEN [v |-> m[key], m |-> m, made |-> FALSE]
    ELSE [v |-> new, m |-> MapStore(m, key, new), made |-> TRUE]

\* Fetch under the write lock, to its return. The factory is only looked at
\* here, where it is invoked: kind and size are what it builds
FetchWrite(t, kind, size) ==
    /\ panicked = "none"
    /\ fpc[t] # NoKey
    /\ instruments' = FetchLocked(instruments, fpc[t], NewInstrument(kind, size)).m
    /\ fpc' = [fpc EXCEPT ![t] = NoKey]
    /\ UNCHANGED <<reporters, errq, errClosed, closing, closedCh, closedClosed,
                   closer, closeRes, panicked, lpc, mode, reps, ri, drained,
                   cur, cerr, log, drainedKeys, atSwap, sent, finals, dropped, hpc, standalone>>

\* the instrument after Update(v); l is the value rand.Intn returned
Updated(rec, v, l) ==
    IF rec.kind = "Counter" THEN CounterUpdate(rec, v) ELSE ReservoirUpdate(rec, v, l)

\* the model updates an instrument MaxCount times at most between snapshots
CanUpdate(rec, v) ==
    IF rec.kind = "Counter" THEN rec.count + v <= MaxCount ELSE rec.size < MaxCount

\* user code updates the instrument in the registry under key k
Update(k, v) ==
    /\ panicked = "none"
    /\ k \in DOMAIN instruments
    /\ CanUpdate(instruments[k], v)
    /\ \E l \in 0..instruments[k].size :
          instruments' = [instruments EXCEPT ![k] = Updated(@, v, l)]
    /\ UNCHANGED <<reporters, errq, errClosed, closing, closedCh, closedClosed,
                   closer, closeRes, panicked, fpc, lpc, mode, reps, ri,
                   drained, cur, cerr, log, drainedKeys, atSwap, sent, finals, dropped, hpc, standalone>>

\* user code updates, through the pointer it kept, an instrument the running
\* cycle has drained from the registry
UpdateDrained(k, v) ==
    /\ panicked = "none"
    /\ k \in DOMAIN drained
    /\ CanUpdate(drained[k], v)
    /\ \E l \in 0..drained[k].size :
          drained' = [drained EXCEPT ![k] = Updated(@, v, l)]
    /\ UNCHANGED <<instruments, reporters, errq, errClosed, closing, closedCh,
                   closedClosed, closer, closeRes, panicked, fpc, lpc, mode,
                   reps, ri, cur, cerr, log, drainedKeys, atSwap, sent, finals, dropped, hpc, standalone>>

\* user code receives one error from Errors()
ReadError ==
    /\ panicked = "none"
    /\ errq > 0
    /\ ~errClosed
    /\ errq' = errq - 1
    /\ UNCHANGED <<instruments, reporters, errClosed, closing, closedCh,
                   closedClosed, closer, closeRes, panicked, fpc, lpc, mode,
                   reps, ri, drained, cur, cerr, log, drainedKeys, atSwap, sent,
                   finals, dropped, hpc, standalone>>

\* Close, first statement: close(r.closing); closing a closed channel panics
CloseCall ==
    /\ panicked = "none"
    /\ IF closing
       THEN Crash("close of closed channel")
       ELSE /\ closing' = TRUE
            /\ closer' = "waiting"
            /\ UNCHANGED <<instruments, reporters, errq, errClosed, closedCh,
                           closedClosed, closeRes, panicked, fpc, lpc, mode,
                           reps, ri, drained, cur, cerr, log, drainedKeys,
                           atSwap, sent, finals, dropped, hpc, standalone>>

\* the value a receive from r.closed yields
RecvClosed(ch) == IF ch # "empty" THEN ch ELSE "nil"

\* a Close that does not wait for the loop
CanRecvClosedAlways(ch, isClosed) == TRUE

\* the receive of Close can proceed: a value is buffered or the channel closed
CanRecvClosed(ch, isClosed) == ch # "empty" \/ isClosed

\* Close, second statement: return <-r.closed
CloseReturn ==
    /\ panicked = "none"
    /\ closer = "waiting"
    /\ CanRecvClosed(closedCh, closedClosed)
    /\ closeRes' = RecvClosed(closedCh)
    /\ closedCh' = "empty"
    /\ closer' = "returned"
    /\ UNCHANGED <<instruments, reporters, errq, errClosed, closing,
                   closedClosed, panicked, fpc, lpc, mode, reps, ri, drained,
                   cur, cerr, log, drainedKeys, atSwap, sent, finals, dropped, hpc, standalone>>

-----------------------------------------------------------------------------
(* src/registry.go: the flush cycle and the loop goroutine *)

Call(op, rep, key, err) == [op |-> op, rep |-> rep, key |-> key, err |-> err]

\* a reset that returns the map it has just installed
resetFresh(m) == [drained |-> newInstrumentsMap, fresh |-> newInstrumentsMap]

\* reset: swap the map for a new one under the write lock
reset(m) == [drained |-> m, fresh |-> newInstrumentsMap]

\* handleError: select { case r.errors <- err: default: }
handleError(n) == IF n < ErrorsCap THEN n + 1 ELSE n

\* what a reporter does with the instrument it is handed: it takes the
\* snapshot itself (mockReporter.Discrete/Sample, datadog Reporter.Discrete)
ReporterEmit(rec) == Snapshot(rec)

\* the method flush calls for an instrument: the type switch on val
EmitOp(rec) == IF rec.kind = "Counter" THEN "Discrete" ELSE "Sample"

\* a flush that ignores what the reporters return
AbortsNever(err) == FALSE

\* flush: if err != nil { return err }
Aborts(err) == err

\* a flush without its first loop
FirstPhaseNoPrep(rs) == "reset"

\* flush: the loop over rep.Prep() comes first; with no reporter it has
\* nothing to call
FirstPhase(rs) == IF Len(rs) = 0 THEN "reset" ELSE "prep"

\* what a reporter call may return (TRUE: an error): the model lets reporters
\* fail while fewer than b errors wait in the error channel
MayFail(b) == IF errq < b THEN BOOLEAN ELSE {FALSE}

\* a budget no state exhausts: reporters may fail in every call
Unlimited == ErrorsCap + 1

\* a flush whose loops range over the registry's own list
flushReportersLive(local, live) == live

\* flush: the three loops range over the local variable reporters, the copy
\* of the slice header taken under the read lock; an append to r.reporters
\* writes past the length of the copy
flushReporters(local, live) == local

\* flush, first lines: copy r.reporters under the read lock
BeginFlush ==
    /\ reps' = reporters
    /\ ri' = 1
    /\ drained' = EmptyMap
    /\ cur' = NoKey
    /\ cerr' = FALSE
    /\ log' = <<>>
    /\ drainedKeys' = {}
    /\ atSwap' = EmptyMap
    /\ sent' = NoSent
    /\ lpc' = FirstPhase(reporters)

\* loop: case <-flusher.C
LoopTick ==
    /\ panicked = "none"
    /\ lpc = "select"
    /\ mode' = "tick"
    /\ BeginFlush
    /\ UNCHANGED <<instruments, reporters, errq, errClosed, closing,
                   closedCh, closedClosed, closer, closeRes, panicked, fpc,
                   finals, dropped, hpc, standalone>>

\* loop: case <-r.closing, up to the first lines of the final flush
LoopClosing ==
    /\ panicked = "none"
    /\ lpc = "select"
    /\ closing
    /\ errClosed' = TRUE
    /\ mode' = "final"
    /\ finals' = finals + 1
    /\ BeginFlush
    /\ UNCHANGED <<instruments, reporters, errq, closing, closedCh,
                   closedClosed, closer, closeRes, panicked, fpc, dropped, hpc, standalone>>

\* the goroutine the loop starts after close(r.errors): for range r.errors
DrainErrors ==
    /\ panicked = "none"
    /\ errClosed
    /\ errq > 0
    /\ errq' = errq - 1
    /\ UNCHANGED <<instruments, reporters, errClosed, closing,
                   closedCh, closedClosed, closer, closeRes, panicked, fpc, lpc,
                   mode, reps, ri, drained, cur, cerr, log, drainedKeys, atSwap,
                   sent, finals, dropped, hpc, standalone>>

\* flush: one rep.Prep() of the first loop
LoopPrep(b) ==
    /\ panicked = "none"
    /\ lpc = "prep"
    /\ \E e \in MayFail(b) :
          /\ log' = Append(log, Call("Prep", flushReporters(reps, reporters)[ri], NoKey, e))
          /\ cerr' = Aborts(e)
          /\ IF Aborts(e)
             THEN /\ lpc' = "done"
                  /\ ri' = 1
             ELSE IF ri < Len(flushReporters(reps, reporters))
                  THEN /\ ri' = ri + 1
                       /\ lpc' = lpc
                  ELSE /\ ri' = 1
                       /\ lpc' = "reset"
    /\ UNCHANGED <<instruments, reporters, errq, errClosed, closing,
                   closedCh, closedClosed, closer, closeRes, panicked, fpc, mode,
                   reps, drained, cur, drainedKeys, atSwap, sent, finals, dropped, hpc, standalone>>

\* flush: r.reset(); with no reporter the range loop has nothing to call
LoopReset ==
    /\ panicked = "none"
    /\ lpc = "reset"
    /\ LET r == reset(instruments)
           dr == IF Len(flushReporters(reps, reporters)) = 0 THEN EmptyMap ELSE r.drained
       IN /\ drained' = dr
          /\ instruments' = r.fresh
          /\ drainedKeys' = DOMAIN instruments
          /\ atSwap' = [k \in DOMAIN dr |-> <<Snapshot(dr[k]).ret>>]
          /\ lpc' = IF Len(flushReporters(reps, reporters)) = 0 THEN "done"
                    ELSE IF DOMAIN dr = {} THEN "flush" ELSE "emit"
    /\ UNCHANGED <<reporters, errq, errClosed, closing, closedCh,
                   closedClosed, closer, closeRes, panicked, fpc, mode, reps, ri,
                   cur, cerr, log, sent, finals, dropped, hpc, standalone>>

\* flush: one rep.Discrete / rep.Sample call of the range loop; the range
\* visits the drained map in no particular order
LoopEmit(b) ==
    /\ panicked = "none"
    /\ lpc = "emit"
    /\ \E k \in (IF cur = NoKey THEN DOMAIN drained ELSE {cur}), e \in MayFail(b) :
          LET snap == ReporterEmit(drained[k])
              first == cur = NoKey
              last == ri = Len(flushReporters(reps, reporters))
              stop == Aborts(e)
              dr == IF stop THEN EmptyMap
                    ELSE IF last THEN MapDelete(drained, k)
                    ELSE [drained EXCEPT ![k] = snap.rec]
          IN /\ log' = Append(log, Call(EmitOp(drained[k]), flushReporters(reps, reporters)[ri], k, e))
             /\ drained' = dr
             /\ atSwap' = IF stop THEN EmptyMap
                          ELSE IF first THEN MapDelete(atSwap, k) ELSE atSwap
             /\ sent' = IF e THEN sent
                        ELSE IF first
                             THEN [key |-> k, op |-> EmitOp(drained[k]),
                                   at |-> atSwap[k], got |-> <<snap.ret>>]
                             ELSE [sent EXCEPT !.got = Append(@, snap.ret)]
             /\ cerr' = stop
             /\ ri' = IF stop \/ last THEN 1 ELSE ri + 1
             /\ cur' = IF stop \/ last THEN NoKey ELSE k
             /\ lpc' = IF stop THEN "done"
                       ELSE IF DOMAIN dr = {} THEN "flush" ELSE "emit"
    /\ UNCHANGED <<instruments, reporters, errq, errClosed, closing,
                   closedCh, closedClosed, closer, closeRes, panicked, fpc, mode,
                   reps, drainedKeys, finals, dropped, hpc, standalone>>

\* flush: one rep.Flush() of the last loop
LoopFlush(b) ==
    /\ panicked = "none"
    /\ lpc = "flush"
    /\ \E e \in MayFail(b) :
          /\ log' = Append(log, Call("Flush", flushReporters(reps, reporters)[ri], NoKey, e))
          /\ cerr' = Aborts(e)
          /\ IF Aborts(e) \/ ri = Len(flushReporters(reps, reporters))
             THEN /\ lpc' = "done"
                  /\ ri' = 1
             ELSE /\ lpc' = lpc
                  /\ ri' = ri + 1
    /\ UNCHANGED <<instruments, reporters, errq, errClosed, closing,
                   closedCh, closedClosed, closer, closeRes, panicked, fpc, mode,
                   reps, drained, cur, drainedKeys, atSwap, sent, finals, dropped, hpc, standalone>>

\* where the loop goes after the final flush: it returns
AfterFinal == "exited"

\* a handleError whose select has no default case
handleErrorBlocks(n) == n < ErrorsCap

\* handleError: the select has a default case, so it returns whether or not
\* the n errors already buffered leave room
handleErrorReturns(n) == TRUE

\* loop: what follows the return of flush: handleError on a tick, and
\* r.closed <- err; close(r.closed); return on closing. The history of the
\* final cycle stays, that of a periodic cycle ends with it
LoopFinish ==
    /\ panicked = "none"
    /\ lpc = "done"
    /\ IF mode = "tick"
       THEN /\ cerr => handleErrorReturns(errq)
            /\ errq' = IF cerr THEN handleError(errq) ELSE errq
            /\ dropped' = (cerr /\ handleError(errq) = errq)
            /\ lpc' = "select"
            /\ cerr' = FALSE
            /\ log' = <<>>
            /\ drainedKeys' = {}
            /\ sent' = NoSent
            /\ UNCHANGED <<closedCh, closedClosed>>
       ELSE /\ closedCh' = IF cerr THEN "err" ELSE "nil"
            /\ closedClosed' = TRUE
            /\ lpc' = AfterFinal
            /\ UNCHANGED <<errq, dropped, cerr, log, drainedKeys, sent>>
    /\ reps' = <<>>
    /\ ri' = 1
    /\ drained' = EmptyMap
    /\ cur' = NoKey
    /\ atSwap' = EmptyMap
    /\ UNCHANGED <<instruments, reporters, errClosed, closing,
                   closer, closeRes, panicked, fpc, mode, finals, hpc, standalone>>

-----------------------------------------------------------------------------
(* src/unnamed/part_007: the typed helpers. Fetch returns what a get-or-   *)
(* create under one lock returns (it finds the key in its first lookup, or *)
(* decides under the write lock), so a helper runs it in one step.         *)

\* fetchCounter, fetchReservoir: v := r.Fetch(name, tags, factory) and the
\* type assertion on v; on a match the helper returns v
HelperCall(i, kind, size) ==
    /\ panicked = "none"
    /\ hpc.stage # "mismatch"
    /\ LET r == FetchLocked(instruments, KeyOf(i), NewInstrument(kind, size))
       IN /\ instruments' = r.m
          /\ hpc' = IF r.v.kind = kind
                    THEN [key |-> KeyOf(i), kind |-> kind, size |-> size,
                          stage |-> "returned", ret |-> r.v]
                    ELSE [key |-> KeyOf(i), kind |-> kind, size |-> size,
                          stage |-> "mismatch", ret |-> NoInst]
    /\ UNCHANGED <<reporters, errq, errClosed, closing, closedCh, closedClosed,
                   closer, closeRes, panicked, fpc, lpc, mode, reps, ri,
                   drained, cur, cerr, log, drainedKeys, atSwap, sent, finals,
                   dropped, standalone>>

\* fetchCounter, fetchReservoir after a failed type assertion:
\* handleFetchError, which ends in handleError, and return factory().
\* A send on a closed channel panics, also in a select with a default case
HelperError ==
    /\ panicked = "none"
    /\ hpc.stage = "mismatch"
    /\ IF errClosed
       THEN Crash("send on closed channel")
       ELSE /\ errq' = handleError(errq)
            /\ hpc' = [hpc EXCEPT !.stage = "returned",
                                  !.ret = NewInstrument(hpc.kind, hpc.size)]
            /\ UNCHANGED <<instruments, reporters, errClosed, closing,
                           closedCh, closedClosed, closer, closeRes, panicked,
                           fpc, lpc, mode, reps, ri, drained, cur, cerr, log,
                           drainedKeys, atSwap, sent, finals, dropped, standalone>>

-----------------------------------------------------------------------------
(* Naming: MetricID, SplitMetricID and the naming lines of flush *)

SeqsUpTo(S, n) == UNION {[1..k -> S] : k \in 0..n}

\* the metric names user code passes: the strings of 'f' and '|'
Names == SeqsUpTo({102, Bar}, MaxNameLen) \ {<<>>}

\* the tag lists user code passes: lists of the tags "a" and "b"
TagLists == SeqsUpTo({<<97>>, <<98>>}, MaxTags)

\* the prefixes a registry is created with: "" and "m."
Prefixes == {<<>>, <<109, 46>>}

\* the global tags a registry is created with: none and ["g"]
GlobalTags == {<<>>, << <<103>> >>}

\* flush, line 143: name = r.prefix + name
FlushName(prefix, name) == prefix \o name

\* flush, line 144: the contents of append(r.tags, tags...)
FlushTags(rtags, tags) == rtags \o tags

\* user code builds a metric identifier and splits it again
SplitCall(name, tags) ==
    /\ app' = [fn |-> "split", name |-> name, tags |-> tags,
               prefix |-> <<>>, rtags |-> <<>>,
               outName |-> SplitMetricID(MetricID(name, tags)).name,
               outTags |-> SplitMetricID(MetricID(name, tags)).tags]
    /\ UNCHANGED <<registry, garr, held, unit>>

\* the names flush hands to reporters for an instrument registered under
\* (name, tags) in a registry created with New(_, prefix, rtags...)
FlushNaming(prefix, rtags, name, tags) ==
    /\ LET id == SplitMetricID(MetricID(name, tags))
       IN app' = [fn |-> "flush", name |-> name, tags |-> tags,
                  prefix |-> prefix, rtags |-> rtags,
                  outName |-> FlushName(prefix, id.name),
                  outTags |-> FlushTags(rtags, id.tags)]
    /\ UNCHANGED <<registry, garr, held, unit>>

(* Calls of user code on the registry's map, each recorded with the map it *)
(* found                                                                   *)

\* Get: the instrument under the key, nil when there is none
Get(m, i) == IF KeyOf(i) \in DOMAIN m THEN m[KeyOf(i)] ELSE NoInst

\* Size: len(r.instruments)
Size(m) == Cardinality(DOMAIN m)

\* the call before this one
LastCall == IF app.fn = "none" THEN app ELSE [fn |-> app.fn, i |-> app.i]

RegisterCall(i, kind, size) ==
    /\ instruments' = RegisterStore(instruments, KeyOf(i), NewInstrument(kind, size))
    /\ app' = [fn |-> "Register", i |-> i, arg |-> NewInstrument(kind, size),
               out |-> NoInst, before |-> instruments, last |-> LastCall]
    /\ UNCHANGED <<reporters, errq, errClosed, closing, closedCh, closedClosed,
                   closer, closeRes, panicked, fpc, lpc, mode, reps, ri,
                   drained, cur, cerr, log, drainedKeys, atSwap, sent, finals,
                   dropped, hpc, garr, held, unit>>

UnregisterCall(i) ==
    /\ instruments' = MapDelete(instruments, KeyOf(i))
    /\ app' = [fn |-> "Unregister", i |-> i, arg |-> NoInst, out |-> NoInst,
               before |-> instruments, last |-> LastCall]
    /\ UNCHANGED <<reporters, errq, errClosed, closing, closedCh, closedClosed,
                   closer, closeRes, panicked, fpc, lpc, mode, reps, ri,
                   drained, cur, cerr, log, drainedKeys, atSwap, sent, finals,
                   dropped, hpc, garr, held, unit>>

GetCall(i) ==
    /\ app' = [fn |-> "Get", i |-> i, arg |-> NoInst,
               out |-> Get(instruments, i),
               before |-> instruments, last |-> LastCall]
    /\ UNCHANGED <<registry, garr, held, unit>>

(* The tag slices of one flush cycle *)

\* the slices user code passes to New(interval, prefix, tags...): no tag or
\* the tag "g", in an array with up to MaxSpare more elements
TagSlices ==
    {[arr |-> t \o [i \in 1..spare |-> <<>>], len |-> Len(t)] :
        t \in GlobalTags, spare \in 0..MaxSpare}

\* Go's append(s, xs...): the array of s is written in place and shared when
\* its capacity suffices, and a new array is allocated otherwise
AppendSlice(s, xs) ==
    LET n == s.len + Len(xs)
    IN IF n <= Len(s.arr)
       THEN [shared |-> TRUE, len |-> n,
             arr |-> [i \in 1..Len(s.arr) |->
                         IF s.len < i /\ i <= n THEN xs[i - s.len]
                         ELSE s.arr[i]]]
       ELSE [shared |-> FALSE, len |-> n,
             arr |-> SubSeq(s.arr, 1, s.len) \o xs]

\* what a slice a reporter holds reads now
Contents(h) ==
    IF h.shared THEN SubSeq(garr.arr, 1, h.len) ELSE h.own

\* flush, lines 142-157, for one instrument of the drained map: the tag
\* slice is built and handed to the reporters, which keep it
EmitTags(name, tags) ==
    /\ Len(held) < MaxHeld
    /\ LET r == AppendSlice(garr, SplitMetricID(MetricID(name, tags)).tags)
       IN /\ garr' = IF r.shared THEN [garr EXCEPT !.arr = r.arr] ELSE garr
          /\ held' = Append(held,
                        [shared |-> r.shared, len |-> r.len,
                         own |-> IF r.shared THEN <<>> ELSE r.arr,
                         was |-> SubSeq(r.arr, 1, r.len)])
    /\ UNCHANGED <<registry, app, unit>>

\* the cycle ends: the reporters flushed what they held
EndCycle ==
    /\ held # <<>>
    /\ held' = <<>>
    /\ UNCHANGED <<registry, app, garr, unit>>

(* Instruments used on their own *)

\* the values user code passes to Update: a counter goes up and down
CounterVals == {-1, 1, 2}

\* the values user code passes to NewDerive and to Derive.Update
DeriveVals == {0, 1, 3}

\* Counter.Update by any thread: one atomic add
CounterUpdateCall(v) ==
    /\ unit.kind = "Counter"
    /\ Len(unit.calls) < MaxCalls
    /\ unit' = [unit EXCEPT !.inst = CounterUpdate(@, v),
                            !.calls = Append(@, [op |-> "Update", v |-> v])]
    /\ UNCHANGED <<registry, app, garr, held>>

\* Counter.Snapshot by any thread: one atomic swap
CounterSnapshotCall ==
    /\ unit.kind = "Counter"
    /\ Len(unit.calls) < MaxCalls
    /\ LET r == CounterSnapshot(unit.inst)
       IN unit' = [unit EXCEPT !.inst = r.rec,
                               !.calls = Append(@, [op |-> "Snapshot", v |-> r.ret])]
    /\ UNCHANGED <<registry, app, garr, held>>

\* NewDerive(v): the value and a Rate, of which only the Counter matters
\* until the first Snapshot
NewDerive(v) == [value |-> v, rate |-> NewCounter]

\* the previous value is ignored
DeriveDeltaWhole(v, p) == v

\* Derive.Update, line 149: what is forwarded to the Rate
DeriveDelta(v, p) == v - p

Idle == [at |-> "idle", v |-> 0, p |-> 0]

\* Derive.Update, line 148: p := atomic.SwapInt64(&d.value, v)
DeriveSwap(t, v) ==
    /\ unit.kind = "Derive"
    /\ unit.th[t] = Idle
    /\ unit.started < MaxCalls
    /\ unit' = [unit EXCEPT !.inst.value = v,
                            !.th[t] = [at |-> "swapped", v |-> v, p |-> unit.inst.value],
                            !.started = @ + 1]
    /\ UNCHANGED <<registry, app, garr, held>>

\* Derive.Update, line 149: d.rate.Update(v - p), and the call returns
DeriveForward(t) ==
    /\ unit.kind = "Derive"
    /\ unit.th[t].at = "swapped"
    /\ unit' = [unit EXCEPT
                  !.inst.rate = CounterUpdate(@, DeriveDelta(unit.th[t].v, unit.th[t].p)),
                  !.th[t] = Idle,
                  !.stored = Append(@, unit.th[t].v)]
    /\ UNCHANGED <<registry, app, garr, held>>

(* Rate *)

\* the units user code passes to NewRateScale, in nanoseconds: a millisecond
RateUnits == {1000000}

\* what the wall clock may have advanced by, in nanoseconds, when
\* time.Now() is read: nothing, half a millisecond or a millisecond
ClockSteps == {0, 500000, 1000000}

\* the values user code passes to Rate.Update
RateVals == {1, 2}

\* math.Ceil of n / d, for d > 0
CeilDiv(n, d) == -((-n) \div d)

\* int64(x) for a float64 x that is NaN or infinite: the language leaves
\* the value to the implementation (0, the least or the greatest int64;
\* the two extremes are written with the widest integers TLC holds)
ConvUndefined == {0, -2147483647, 2147483647}

\* Rate.Snapshot, lines 120-121: Ceil(float64(c) / rateScale /
\* float64(now-t) * Scale(r.unit, time.Second)), that is the ceiling of
\* c * unit / (now - t) with the nanoseconds cancelled, in exact arithmetic.
\* With now = t the quotient is NaN (c = 0) or infinite, and so is its
\* ceiling.
RateValue(c, elapsed, d) ==
    IF elapsed = 0 THEN ConvUndefined
    ELSE {CeilDiv(c * d, elapsed)}

\* NewRateScale(d), the wall clock reading 0
NewRateScale(d) == [time |-> 0, unit |-> d, count |-> NewCounter]

RateIdle == [at |-> "idle", now |-> 0, t |-> 0]

NoSnapshot == [op |-> "none"]

\* Rate.Update: r.count.Update(v)
RateUpdate(v) ==
    /\ unit.kind = "Rate"
    /\ unit.n < MaxCalls
    /\ unit' = [unit EXCEPT !.inst.count = CounterUpdate(@, v),
                            !.pending = Append(@, v),
                            !.n = @ + 1]
    /\ UNCHANGED <<registry, app, garr, held>>

\* Rate.Snapshot, lines 118-119: the clock is read and swapped in
RateSwapTime(t, step) ==
    /\ unit.kind = "Rate"
    /\ unit.th[t] = RateIdle
    /\ unit.n < MaxCalls
    /\ LET now == unit.clock + step
       IN unit' = [unit EXCEPT !.clock = now,
                               !.inst.time = now,
                               !.th[t] = [at |-> "swapped", now |-> now,
                                          t |-> unit.inst.time],
                               !.n = @ + 1]
    /\ UNCHANGED <<registry, app, garr, held>>

\* Rate.Snapshot, lines 120-122: the count is swapped out and the rate
\* returned
RateFinish(t) ==
    /\ unit.kind = "Rate"
    /\ unit.th[t].at = "swapped"
    /\ LET r == CounterSnapshot(unit.inst.count)
           elapsed == unit.th[t].now - unit.th[t].t
       IN \E out \in RateValue(r.ret, elapsed, unit.inst.unit) :
             unit' = [unit EXCEPT
                        !.inst.count = r.rec,
                        !.th[t] = RateIdle,
                        !.pending = <<>>,
                        !.last = [op |-> "Snapshot", c |-> r.ret,
                                  elapsed |-> elapsed,
                                  pending |-> unit.pending, out |-> out]]
    /\ UNCHANGED <<registry, app, garr, held>>

(* Reservoir *)

\* the sizes user code passes to NewReservoir and the values it passes to
\* Reservoir.Update
ReservoirSizes == {1, 2}
ReservoirVals == {1, 2, 3}

\* Reservoir.Update under the mutex; l is what rand.Intn(r.size) returns
\* when the reservoir is full
ReservoirUpdateCall(v, l) ==
    /\ unit.kind = "Reservoir"
    /\ unit.n < MaxCalls
    /\ l \in 0..unit.inst.size
    /\ unit.inst.size < Len(unit.inst.values) => l = 0
    /\ unit' = [unit EXCEPT !.inst = ReservoirUpdate(@, v, l),
                            !.window = Append(@, v),
                            !.n = @ + 1]
    /\ UNCHANGED <<registry, app, garr, held>>

\* Reservoir.Snapshot under the mutex, and the sort of the copy
ReservoirSnapshotCall ==
    /\ unit.kind = "Reservoir"
    /\ unit.n < MaxCalls
    /\ LET r == ReservoirSnapshot(unit.inst)
       IN unit' = [unit EXCEPT !.inst = r.rec,
                               !.window = <<>>,
                               !.n = @ + 1,
                               !.last = [op |-> "Snapshot", ret |-> r.ret,
                                         window |-> unit.window]]
    /\ UNCHANGED <<registry, app, garr, held>>

(* src/distribution.go: the histogram                                      *)
(*                                                                         *)
(* A float64 is modelled by a rational number, a pair of integers in       *)
(* lowest terms, and the arithmetic is exact: the rounding of float64 is   *)
(* not modelled. Bin weights are whole numbers and are kept as integers.   *)

Abs(x) == IF x < 0 THEN -x ELSE x

Sign(x) == IF x < 0 THEN -1 ELSE IF x > 0 THEN 1 ELSE 0

RECURSIVE GCD(_, _)
GCD(a, b) == IF b = 0 THEN a ELSE GCD(b, a % b)

\* the rational n / d, d # 0, in lowest terms with a positive denominator
Rat(n, d) ==
    LET g == GCD(Abs(n), Abs(d))
    IN [n |-> Sign(d) * (n \div g), d |-> Abs(d) \div g]

R(i) == [n |-> i, d |-> 1]

\* sums, products and comparisons cancel common factors before they
\* multiply, to keep the integers small
RAdd(a, b) ==
    LET g == GCD(a.d, b.d)
    IN Rat(a.n * (b.d \div g) + b.n * (a.d \div g), (a.d \div g) * b.d)
RNeg(a) == [n |-> -a.n, d |-> a.d]
RSub(a, b) == RAdd(a, RNeg(b))
RMul(a, b) ==
    LET g1 == GCD(Abs(a.n), b.d)
        g2 == GCD(Abs(b.n), a.d)
    IN [n |-> (a.n \div g1) * (b.n \div g2), d |-> (a.d \div g2) * (b.d \div g1)]
RDiv(a, b) == RMul(a, Rat(b.d, b.n))
RSign(a) == Sign(a.n)
\* -1, 0 or 1 as a is below, equal to or above b
RCmp(a, b) ==
    IF RSign(a) # RSign(b) THEN Sign(RSign(a) - RSign(b))
    ELSE LET g == GCD(a.d, b.d)
             k == GCD(Abs(a.n), Abs(b.n))
         IN IF k = 0 THEN 0
            ELSE Sign((a.n \div k) * (b.d \div g) - (b.n \div k) * (a.d \div g))
RLess(a, b) == RCmp(a, b) < 0
RLeq(a, b) == RCmp(a, b) <= 0

\* a bin sum that takes the weight with its sign
BinSumSigned(b) == RMul(R(b.w), b.v)

\* histogramBin.Sum: math.Abs(b.w) * b.v
BinSum(b) == RMul(R(Abs(b.w)), b.v)

\* newHistogram when the pool has nothing to offer: make([]histogramBin, 0,
\* sz+1)
FreshHistogram(sz) ==
    [bins |-> <<>>, cap |-> sz + 1, size |-> sz, cnt |-> 0,
     min |-> R(0), max |-> R(0)]

\* min and max are left as they are
ResetKeepsBounds(h, sz) ==
    [h EXCEPT !.bins = <<>>, !.size = sz, !.cnt = 0]

\* histogram.Reset
Reset(h, sz) ==
    [h EXCEPT !.bins = <<>>, !.size = sz, !.min = R(0), !.max = R(0), !.cnt = 0]

\* sort.Search(len(h.bins), h.bins[i].v >= v): the binary search between
\* the 0-based indices i and j
RECURSIVE SortSearch(_, _, _, _)
SortSearch(bins, v, i, j) ==
    IF i < j
    THEN LET m == (i + j) \div 2
         IN IF ~RLeq(v, bins[m + 1].v)
            THEN SortSearch(bins, v, m + 1, j)
            ELSE SortSearch(bins, v, i, m)
    ELSE i

\* every value is taken to be above all bins
searchEnd(h, v) == Len(h.bins)

\* histogram.search
search(h, v) == SortSearch(h.bins, v, 0, Len(h.bins))

\* the weight of the bin is left as it is
BumpWeightSkipped(w) == w

\* insert, line 188: w += math.Copysign(1, w)
BumpWeight(w) == w + Sign(w)

\* histogram.insert; pos is 0-based as in the code
insert(h, v) ==
    LET pos == search(h, v)
        n == Len(h.bins)
    IN IF pos < n /\ h.bins[pos + 1].v = v
       THEN [h EXCEPT !.bins[pos + 1].w = BumpWeight(@)]
       ELSE [h EXCEPT !.bins = SubSeq(h.bins, 1, pos)
                                 \o <<[w |-> 1, v |-> v]>>
                                 \o SubSeq(h.bins, pos + 1, n)]

\* prune, lines 208-215: the 0-based position of the first of the two
\* neighbours that are closest; i is the loop index, pos and delta the
\* loop's variables, delta being math.MaxFloat64 until found is set
RECURSIVE ClosestPair(_, _, _, _, _)
ClosestPair(bins, i, pos, delta, found) ==
    IF i < Len(bins) - 1
    THEN LET x == RSub(bins[i + 2].v, bins[i + 1].v)
         IN IF ~found \/ RLess(x, delta)
            THEN ClosestPair(bins, i + 1, i, x, TRUE)
            ELSE ClosestPair(bins, i + 1, pos, delta, found)
    ELSE pos

\* a merge that leaves the bin marked exact
MergedWeightExact(w) == w

\* prune, line 220: h.bins[pos+1].w = -w, the negative weight is the marker
\* of a merged bin
MergedWeight(w) == -w

\* no bin is merged
pruneSkipped(h) == h

\* histogram.prune
prune(h) ==
    IF Len(h.bins) <= h.size THEN h
    ELSE LET pos == ClosestPair(h.bins, 0, 0, R(0), FALSE)
             b1 == h.bins[pos + 1]
             b2 == h.bins[pos + 2]
             w == Abs(b1.w) + Abs(b2.w)
             v == RDiv(RAdd(BinSum(b1), BinSum(b2)), R(w))
         IN [h EXCEPT !.bins = SubSeq(h.bins, 1, pos)
                                  \o <<[w |-> MergedWeight(w), v |-> v]>>
                                  \o SubSeq(h.bins, pos + 3, Len(h.bins))]

\* histogram.Add up to the call of prune
AddInsert(h, v) ==
    LET h1 == [h EXCEPT !.min = IF h.cnt = 0 \/ RLess(v, h.min) THEN v ELSE @,
                        !.max = IF h.cnt = 0 \/ RLess(h.max, v) THEN v ELSE @]
        h2 == insert(h1, v)
    IN [h2 EXCEPT !.cnt = @ + 1]

\* histogram.Add
Add(h, v) == prune(AddInsert(h, v))

Count(h) == h.cnt
Min(h) == h.min
Max(h) == h.max

RECURSIVE RSum(_)
\* the sum of a sequence of rationals
RSum(s) == IF s = <<>> THEN R(0) ELSE RAdd(s[1], RSum(Tail(s)))

\* histogram.Mean
Mean(h) ==
    IF h.cnt = 0 THEN R(0)
    ELSE RDiv(RSum([i \in DOMAIN h.bins |-> BinSum(h.bins[i])]), R(h.cnt))

\* histogram.Variance: delta * delta * b.w, the weight with its sign
Variance(h) ==
    IF h.cnt = 0 THEN R(0)
    ELSE LET mean == Mean(h)
             term(b) == LET delta == RSub(mean, b.v)
                        IN RMul(RMul(delta, delta), R(b.w))
         IN RDiv(RSum([i \in DOMAIN h.bins |-> term(h.bins[i])]), R(h.cnt))

(* A value x + y * sqrt(d) with x, y and d rational and d >= 0, which is   *)
(* what resolve returns, or NaN. Two such values are compared exactly.     *)

Surd(x, y, d) == [nan |-> FALSE, x |-> x, y |-> y, d |-> d]
SurdOf(r) == Surd(r, R(0), R(0))
NaN == [nan |-> TRUE, x |-> R(0), y |-> R(0), d |-> R(0)]

\* -1, 0 or 1 as y * sqrt(d) is below, equal to or above the rational c
SqrtCmp(y, d, c) ==
    LET sl == RSign(y) * RSign(d)
        sr == RSign(c)
    IN IF sl # sr THEN Sign(sl - sr)
       ELSE IF sl = 0 THEN 0
       ELSE sl * RCmp(RMul(RMul(y, y), d), RMul(c, c))

\* -1, 0 or 1 as s is below, equal to or above t: with one root at most,
\* or the same root or the same rational part in both, by one comparison
\* of squares, and by two in the general case
SurdCmp(s, t) ==
    LET c == RSub(t.x, s.x)
        sa == RSign(s.y) * RSign(s.d)
        sb == RSign(t.y) * RSign(t.d)
        a2 == RMul(RMul(s.y, s.y), s.d)
        b2 == RMul(RMul(t.y, t.y), t.d)
    IN IF sa = 0 THEN -SqrtCmp(t.y, t.d, RNeg(c))
       ELSE IF sb = 0 THEN SqrtCmp(s.y, s.d, c)
       ELSE IF s.d = t.d THEN SqrtCmp(RSub(s.y, t.y), s.d, c)
       ELSE IF RSign(c) = 0
            THEN IF sa # sb THEN Sign(sa - sb) ELSE sa * RCmp(a2, b2)
       ELSE LET sbc == SqrtCmp(t.y, t.d, RNeg(c))
            IN IF sa # sbc THEN Sign(sa - sbc)
               ELSE -sa * SqrtCmp(RMul(RMul(R(2), c), t.y), t.d,
                                  RSub(RSub(a2, b2), RMul(c, c)))

\* s <= t, found through a rational of P that lies between them where there
\* is one
SurdLeq(s, t, P) ==
    /\ ~s.nan
    /\ ~t.nan
    /\ \/ \E p \in P : SurdCmp(s, SurdOf(p)) <= 0 /\ SurdCmp(SurdOf(p), t) <= 0
       \/ SurdCmp(s, t) <= 0

\* the b * b is left out
DiscriminantSkipsB(a, b, delta) == RMul(RMul(R(4), a), delta)

\* resolve, line 179: b*b + 4*a*delta
Discriminant(a, b, delta) == RAdd(RMul(b, b), RMul(RMul(R(4), a), delta))

\* histogram.resolve
resolve(b1, b2, delta) ==
    IF b1.w > 0 /\ b2.w > 0 THEN SurdOf(b2.v)
    ELSE LET w1 == Abs(b1.w)
             w2 == Abs(b2.w)
             dv == RSub(b2.v, b1.v)
         IN IF w1 = w2
            THEN IF w1 = 0 THEN NaN
                 ELSE SurdOf(RAdd(b1.v, RMul(dv, RDiv(delta, R(w1)))))
            ELSE LET a == R(2 * (w2 - w1))
                     b == R(2 * w1)
                     d == Discriminant(a, b, delta)
                 IN IF RSign(d) < 0 THEN NaN
                    ELSE Surd(RSub(b1.v, RDiv(RMul(dv, b), a)), RDiv(dv, a), d)

\* the half weight of the bin before is forgotten
NextHalfZero(w1) == R(0)

\* Quantile, line 134: w0 = w1
NextHalf(w1) == w1

\* Quantile, lines 128-135: the scan of the bins from the 0-based position
\* pos, with the loop's w0 and delta
RECURSIVE QuantileScan(_, _, _, _)
QuantileScan(bins, pos, w0, delta) ==
    IF pos < Len(bins)
    THEN LET w1 == Rat(Abs(bins[pos + 1].w), 2)
         IN IF RSign(RSub(RSub(delta, w1), w0)) < 0
            THEN [pos |-> pos, delta |-> delta]
            ELSE QuantileScan(bins, pos + 1, NextHalf(w1), RSub(delta, RAdd(w1, w0)))
    ELSE [pos |-> pos, delta |-> delta]

\* every q is taken to be a quantile
OutOfRangeNever(q) == FALSE

\* Quantile, line 118: q < 0.0 || q > 1.0
OutOfRange(q) == RSign(q) < 0 \/ RLess(R(1), q)

\* histogram.Quantile
Quantile(h, q) ==
    IF h.cnt = 0 \/ OutOfRange(q) THEN SurdOf(R(0))
    ELSE IF q = R(0) THEN SurdOf(h.min)
    ELSE IF q = R(1) THEN SurdOf(h.max)
    ELSE LET s == QuantileScan(h.bins, 0, R(0), RMul(q, R(h.cnt)))
         IN IF s.pos = 0
            THEN resolve([w |-> 0, v |-> h.min], h.bins[1], s.delta)
            ELSE IF s.pos = Len(h.bins)
            THEN resolve(h.bins[s.pos], [w |-> 0, v |-> h.max], s.delta)
            ELSE resolve(h.bins[s.pos], h.bins[s.pos + 1], s.delta)

(* A histogram in use *)

\* the capacities user code passes to newHistogram, the values it passes
\* to Add and the arguments it passes to Quantile
HistSizes == {1, 2, 3}
HistVals == {R(1), R(2), R(4), R(7)}
Qs == {Rat(i, 8) : i \in {-2, 0, 1, 2, 3, 4, 5, 6, 7, 8, 10}}

\* newHistogram; hit tells whether histogramPool.Get returns the histogram
\* that was released (a sync.Pool may return nil at any time)
HistNew(sz, hit) ==
    /\ unit.kind = "histogram"
    /\ hit => unit.pooled
    /\ LET reuse == hit /\ sz < unit.h.cap
       IN unit' = [unit EXCEPT
                     !.h = IF reuse THEN Reset(unit.h, sz) ELSE FreshHistogram(sz),
                     !.pooled = FALSE,
                     !.adds = 0,
                     !.peak = 0,
                     !.reused = reuse /\ unit.h.cnt > 0,
                     !.sum = R(0)]
    /\ app' = NoApp
    /\ UNCHANGED <<registry, garr, held>>

\* histogram.Release: the histogram goes to the pool and is not used again
\* before newHistogram hands it out
HistRelease ==
    /\ unit.kind = "histogram"
    /\ ~unit.pooled
    /\ unit' = [unit EXCEPT !.pooled = TRUE]
    /\ app' = NoApp
    /\ UNCHANGED <<registry, garr, held>>

\* histogram.Add; peak keeps the number of bins before prune, sum the sum of
\* the values added since the histogram was created or reset
HistAdd(v) ==
    /\ unit.kind = "histogram"
    /\ ~unit.pooled
    /\ unit.adds < MaxAdds
    /\ unit' = [unit EXCEPT !.h = Add(@, v),
                            !.adds = @ + 1,
                            !.peak = Len(AddInsert(unit.h, v).bins),
                            !.sum = RAdd(@, v)]
    /\ app' = NoApp
    /\ UNCHANGED <<registry, garr, held>>

\* user code reads Count, Min, Max, Mean, Variance and the quantiles Qs
HistRead ==
    /\ unit.kind = "histogram"
    /\ ~unit.pooled
    /\ app' = [fn |-> "read",
               count |-> Count(unit.h), min |-> Min(unit.h), max |-> Max(unit.h),
               mean |-> Mean(unit.h), variance |-> Variance(unit.h),
               quantile |-> [q \in Qs |-> Quantile(unit.h, q)]]
    /\ UNCHANGED <<registry, garr, held, unit>>

(* The specifications *)

\* the steps of the loop goroutine through one periodic cycle, with the
\* budget b of reporter errors
Cycle(b) ==
    \/ LoopTick
    \/ LoopPrep(b)
    \/ LoopReset
    \/ LoopEmit(b)
    \/ LoopFlush(b)
    \/ LoopFinish

\* user code that registers, updates and unregisters instruments
Users ==
    \/ \E i \in Inputs, kind \in Kinds, size \in ResSizes : Register(i, kind, size)
    \/ \E i \in Inputs : Unregister(i)
    \/ \E i \in Inputs, v \in UpdateVals : Update(KeyOf(i), v)
    \/ \E i \in Inputs, v \in UpdateVals : UpdateDrained(KeyOf(i), v)

(* Spec: the flush cycles of a registry with up to two reporters that may  *)
(* fail, while user code registers, updates and unregisters instruments.   *)
Next ==
    \/ \E rep \in ReporterIds : Subscribe(rep)
    \/ Users
    \/ Cycle(MaxFails)

Spec == Init /\ [][Next]_vars

(* SpecFetch: two threads in Fetch, racing each other, Register,           *)
(* Unregister and the flush cycles of a registry with up to one reporter   *)
(* that does not fail.                                                     *)
NextFetch ==
    \/ \E t \in Threads, i \in Inputs : FetchRead(t, i)
    \/ \E t \in Threads, kind \in Kinds, size \in ResSizes : FetchWrite(t, kind, size)
    \/ Subscribe(1)
    \/ Users
    \/ Cycle(0)

SpecFetch == Init /\ [][NextFetch]_vars

(* SpecRace: user code that stores instruments, by Register or by Fetch,   *)
(* only while a flush cycle is running; up to two reporters that may fail. *)
RegisterInCycle(i, kind, size) == lpc # "select" /\ Register(i, kind, size)

FetchReadInCycle(t, i) == lpc # "select" /\ FetchRead(t, i)

FetchWriteInCycle(t, kind, size) == lpc # "select" /\ FetchWrite(t, kind, size)

NextRace ==
    \/ \E rep \in ReporterIds : Subscribe(rep)
    \/ \E i \in Inputs, kind \in Kinds, size \in ResSizes : RegisterInCycle(i, kind, size)
    \/ \E i \in Inputs : FetchReadInCycle(1, i)
    \/ \E kind \in Kinds, size \in ResSizes : FetchWriteInCycle(1, kind, size)
    \/ \E i \in Inputs, v \in UpdateVals : Update(KeyOf(i), v)
    \/ Cycle(MaxFails)

SpecRace == Init /\ [][NextRace]_vars

(* SpecClose: Close, called any number of times, against the loop          *)
(* goroutine of a registry with up to two reporters that may fail.         *)
NextClose ==
    \/ CloseCall
    \/ CloseReturn
    \/ LoopClosing
    \/ DrainErrors
    \/ \E rep \in ReporterIds : Subscribe(rep)
    \/ \E i \in Inputs : Register(i, "Counter", 0)
    \/ Cycle(MaxFails)

SpecClose == Init /\ [][NextClose]_vars

(* SpecErr: periodic cycles of a registry whose reporter may fail in any   *)
(* call, any number of times, while user code reads the error channel or   *)
(* leaves it full.                                                         *)
NextErr ==
    \/ Subscribe(1)
    \/ \E i \in Inputs : Register(i, "Counter", 0)
    \/ ReadError
    \/ Cycle(Unlimited)

SpecErr == Init /\ [][NextErr]_vars

\* user code calls Close once
CloseOnce == ~closing /\ CloseCall

(* SpecHelper: user code that calls the typed helpers and Register, reads  *)
(* the error channel and calls Close once, against the loop goroutine of a *)
(* registry without reporters.                                             *)
NextHelper ==
    \/ \E i \in Inputs, kind \in Kinds, size \in ResSizes : HelperCall(i, kind, size)
    \/ HelperError
    \/ \E i \in Inputs, kind \in Kinds, size \in ResSizes : Register(i, kind, size)
    \/ \E i \in Inputs, v \in UpdateVals : Update(KeyOf(i), v)
    \/ ReadError
    \/ CloseOnce
    \/ CloseReturn
    \/ LoopTick
    \/ LoopClosing
    \/ LoopReset
    \/ LoopFinish

SpecHelper == Init /\ [][NextHelper]_vars

NextNaming ==
    \/ \E n \in Names, t \in TagLists : SplitCall(n, t)
    \/ \E p \in Prefixes, g \in GlobalTags, n \in Names, t \in TagLists :
          FlushNaming(p, g, n, t)

SpecNaming == Init /\ [][NextNaming]_vars

\* a registry created with one of the tag slices
InitTags ==
    /\ NewRegistry
    /\ app = NoApp
    /\ garr \in TagSlices
    /\ held = <<>>
    /\ unit = <<>>

NextTags ==
    \/ \E t \in TagLists : EmitTags(<<102>>, t)
    \/ EndCycle

SpecTags == InitTags /\ [][NextTags]_vars

(* SpecKeys: user code calls Register, Unregister and Get, one call after  *)
(* the other, between two flush cycles.                                    *)
NextKeys ==
    \/ \E i \in Inputs, kind \in Kinds, size \in ResSizes : RegisterCall(i, kind, size)
    \/ \E i \in Inputs : UnregisterCall(i)
    \/ \E i \in Inputs : GetCall(i)

SpecKeys == Init /\ [][NextKeys]_vars

(* SpecCounter: threads call Update and Snapshot on one Counter; each call *)
(* is one atomic instruction, so the calls of all threads form one         *)
(* sequence.                                                               *)
InitCounter ==
    /\ NewRegistry
    /\ app = NoApp
    /\ garr = NoSlice
    /\ held = <<>>
    /\ unit = [kind |-> "Counter", inst |-> NewCounter, calls |-> <<>>]

NextCounter ==
    \/ \E v \in CounterVals : CounterUpdateCall(v)
    \/ CounterSnapshotCall

SpecCounter == InitCounter /\ [][NextCounter]_vars

(* SpecDerive: two threads call Update on one Derive created with v0.      *)
InitDerive ==
    /\ NewRegistry
    /\ app = NoApp
    /\ garr = NoSlice
    /\ held = <<>>
    /\ \E v0 \in DeriveVals :
          unit = [kind |-> "Derive", inst |-> NewDerive(v0), v0 |-> v0,
                  th |-> [t \in Threads |-> Idle], started |-> 0,
                  stored |-> <<>>]

NextDerive ==
    \/ \E t \in Threads, v \in DeriveVals : DeriveSwap(t, v)
    \/ \E t \in Threads : DeriveForward(t)

SpecDerive == InitDerive /\ [][NextDerive]_vars

(* SpecRate: two threads call Update and Snapshot on one Rate while the    *)
(* wall clock advances or stands still.                                    *)
InitRate ==
    /\ NewRegistry
    /\ app = NoApp
    /\ garr = NoSlice
    /\ held = <<>>
    /\ \E d \in RateUnits :
          unit = [kind |-> "Rate", inst |-> NewRateScale(d), clock |-> 0,
                  th |-> [t \in Threads |-> RateIdle], pending |-> <<>>,
                  n |-> 0, last |-> NoSnapshot]

NextRate ==
    \/ \E v \in RateVals : RateUpdate(v)
    \/ \E t \in Threads, step \in ClockSteps : RateSwapTime(t, step)
    \/ \E t \in Threads : RateFinish(t)

SpecRate == InitRate /\ [][NextRate]_vars

(* SpecReservoir: threads call Update and Snapshot on one Reservoir; the   *)
(* mutex makes each call one step.                                         *)
InitReservoir ==
    /\ NewRegistry
    /\ app = NoApp
    /\ garr = NoSlice
    /\ held = <<>>
    /\ \E size \in ReservoirSizes :
          unit = [kind |-> "Reservoir", inst |-> NewReservoir(size),
                  window |-> <<>>, n |-> 0, last |-> NoSnapshot]

NextReservoir ==
    \/ \E v \in ReservoirVals, l \in 0..MaxCalls : ReservoirUpdateCall(v, l)
    \/ ReservoirSnapshotCall

SpecReservoir == InitReservoir /\ [][NextReservoir]_vars

(* SpecHist: user code creates a histogram, adds values to it, reads it,   *)
(* releases it and creates the next one.                                   *)
InitHist ==
    /\ NewRegistry
    /\ app = NoApp
    /\ garr = NoSlice
    /\ held = <<>>
    /\ \E sz \in HistSizes :
          unit = [kind |-> "histogram", h |-> FreshHistogram(sz),
                  pooled |-> FALSE, adds |-> 0, peak |-> 0, reused |-> FALSE,
                  sum |-> R(0)]

NextHist ==
    \/ \E sz \in HistSizes, hit \in BOOLEAN : HistNew(sz, hit)
    \/ HistRelease
    \/ \E v \in HistVals : HistAdd(v)
    \/ HistRead

SpecHist == InitHist /\ [][NextHist]_vars

-----------------------------------------------------------------------------
(* A Counter fetched from a registry whose cycles run                      *)
(*                                                                         *)
(* The Counters the factory builds are kept apart here: heap holds them in *)
(* the order they were built, the registry's map and the map a cycle has   *)
(* drained hold references into heap, and so does ptr, the *Counter the    *)
(* last call of r.Counter returned to user code. The registry has one      *)
(* reporter, subscribed before the first tick, which never fails. User     *)
(* code updates the Counter through ptr and calls Close when it has        *)
(* applied its last Update.                                                *)

MaxUpdates == 2       \* Update calls of user code
MaxObjs == 3          \* Counters the factory builds

LedgerKey == MetricID(<<102>>, <<>>)

NewLedger ==
    [kind |-> "ledger", heap |-> <<>>, m |-> EmptyMap, dr |-> EmptyMap,
     ptr |-> 0, upc |-> "idle", lpc |-> "select", mode |-> "tick",
     closer |-> "none", updates |-> 0, applied |-> 0, delivered |-> 0]

\* r.Counter(name, tags) -> fetchCounter -> Fetch up to the release of the
\* read lock: a Counter found there is returned
LedgerFetchRead ==
    /\ unit.kind = "ledger"
    /\ unit.closer = "none"
    /\ unit.upc \in {"idle", "holding"}
    /\ unit' = IF LedgerKey \in DOMAIN unit.m
               THEN [unit EXCEPT !.ptr = unit.m[LedgerKey], !.upc = "holding"]
               ELSE [unit EXCEPT !.ptr = 0, !.upc = "fetching"]
    /\ UNCHANGED <<registry, app, garr, held>>

\* Fetch under the write lock, to the return of r.Counter
LedgerFetchWrite ==
    /\ unit.kind = "ledger"
    /\ unit.upc = "fetching"
    /\ Len(unit.heap) < MaxObjs
    /\ LET r == FetchLocked(unit.m, LedgerKey, Len(unit.heap) + 1)
       IN unit' = [unit EXCEPT !.heap = IF r.made THEN Append(@, NewCounter) ELSE @,
                               !.m = r.m,
                               !.ptr = r.v,
                               !.upc = "holding"]
    /\ UNCHANGED <<registry, app, garr, held>>

\* user code calls Update(v) on the Counter r.Counter returned
LedgerUpdate(v) ==
    /\ unit.kind = "ledger"
    /\ unit.closer = "none"
    /\ unit.upc = "holding"
    /\ unit.updates < MaxUpdates
    /\ unit' = [unit EXCEPT !.heap[unit.ptr] = CounterUpdate(@, v),
                            !.updates = @ + 1,
                            !.applied = @ + v]
    /\ UNCHANGED <<registry, app, garr, held>>

\* user code calls Close: close(r.closing)
LedgerClose ==
    /\ unit.kind = "ledger"
    /\ unit.closer = "none"
    /\ unit.upc \in {"idle", "holding"}
    /\ unit' = [unit EXCEPT !.closer = "waiting"]
    /\ UNCHANGED <<registry, app, garr, held>>

\* Close: return <-r.closed
LedgerCloseReturn ==
    /\ unit.kind = "ledger"
    /\ unit.closer = "waiting"
    /\ unit.lpc = "exited"
    /\ unit' = [unit EXCEPT !.closer = "returned"]
    /\ UNCHANGED <<registry, app, garr, held>>

\* loop: a tick, or the closing channel, starts flush; its first loop calls
\* Prep on the reporter
LedgerBegin(final) ==
    /\ unit.kind = "ledger"
    /\ unit.lpc = "select"
    /\ final => unit.closer = "waiting"
    /\ unit' = [unit EXCEPT !.lpc = "reset",
                            !.mode = IF final THEN "final" ELSE "tick"]
    /\ UNCHANGED <<registry, app, garr, held>>

\* flush: r.reset()
LedgerReset ==
    /\ unit.kind = "ledger"
    /\ unit.lpc = "reset"
    /\ LET r == reset(unit.m)
       IN unit' = [unit EXCEPT !.m = r.fresh,
                               !.dr = r.drained,
                               !.lpc = IF DOMAIN r.drained = {} THEN "flush" ELSE "emit"]
    /\ UNCHANGED <<registry, app, garr, held>>

\* flush: rep.Discrete(name, tags, inst) for the drained Counter; the
\* reporter takes the snapshot
LedgerEmit ==
    /\ unit.kind = "ledger"
    /\ unit.lpc = "emit"
    /\ LET id == unit.dr[LedgerKey]
           snap == ReporterEmit(unit.heap[id])
       IN unit' = [unit EXCEPT !.heap[id] = snap.rec,
                               !.delivered = @ + snap.ret,
                               !.dr = EmptyMap,
                               !.lpc = "flush"]
    /\ UNCHANGED <<registry, app, garr, held>>

\* flush: rep.Flush(), and the return of flush to the loop, which goes back
\* to its select or, after the final cycle, returns
LedgerFinish ==
    /\ unit.kind = "ledger"
    /\ unit.lpc = "flush"
    /\ unit' = [unit EXCEPT !.lpc = IF unit.mode = "final" THEN AfterFinal ELSE "select"]
    /\ UNCHANGED <<registry, app, garr, held>>

InitLedger ==
    /\ NewRegistry
    /\ app = NoApp
    /\ garr = NoSlice
    /\ held = <<>>
    /\ unit = NewLedger

NextLedger ==
    \/ LedgerFetchRead
    \/ LedgerFetchWrite
    \/ \E v \in UpdateVals : LedgerUpdate(v)
    \/ LedgerClose
    \/ LedgerCloseReturn
    \/ \E final \in BOOLEAN : LedgerBegin(final)
    \/ LedgerReset
    \/ LedgerEmit
    \/ LedgerFinish

SpecLedger == InitLedger /\ [][NextLedger]_vars

-----------------------------------------------------------------------------
(* src/distribution.go: Clone                                              *)
(*                                                                         *)
(* Two histograms are told apart here by the backing arrays of their bins: *)
(* store holds the arrays, each as long as its capacity, and a histogram   *)
(* is its fields with the array and the length of its slice. h is the      *)
(* original, x the clone user code holds, pool the histograms that were    *)
(* released.                                                               *)

MaxCloneAdds == 3     \* Add calls on the original and its clones
MaxClones == 2        \* Clone calls

CloneSizes == {1, 2}
CloneVals == {R(1), R(2), R(4)}

NoHist == [arr |-> 0, len |-> 0, size |-> 0, cnt |-> 0, min |-> R(0), max |-> R(0)]

\* make([]histogramBin, n): n zero bins
ZeroBins(n) == [i \in 1..n |-> [w |-> 0, v |-> R(0)]]

\* the histogram p as the value the operators of the histogram take
Load(store, p) ==
    [bins |-> SubSeq(store[p.arr], 1, p.len), cap |-> Len(store[p.arr]),
     size |-> p.size, cnt |-> p.cnt, min |-> p.min, max |-> p.max]

\* the fields of the histogram whose value is hv and whose array is arr
Fields(arr, hv) ==
    [arr |-> arr, len |-> Len(hv.bins), size |-> hv.size, cnt |-> hv.cnt,
     min |-> hv.min, max |-> hv.max]

\* the array cells after bins were written from its start
Written(cells, bins) == bins \o SubSeq(cells, Len(bins) + 1, Len(cells))

\* the array of a histogram after Add(v): insert writes one cell more than
\* it found, and the copy in prune leaves the last of them as it was
CellsAfterAdd(cells, hv, v) ==
    LET a == AddInsert(hv, v)
        c == Written(cells, a.bins)
        p == prune(a)
    IN IF Len(p.bins) = Len(a.bins) THEN c
       ELSE Written(c, Append(p.bins, c[Len(a.bins)]))

\* newHistogram(sz) when histogramPool.Get returned got (NoHist: nil): the
\* histogram it returns and the arrays after it
newHistogram(store, got, sz) ==
    IF got # NoHist /\ sz < Len(store[got.arr])
    THEN [x |-> Fields(got.arr, Reset(Load(store, got), sz)), store |-> store]
    ELSE [x |-> Fields(Len(store) + 1, FreshHistogram(sz)),
          store |-> Append(store, ZeroBins(FreshHistogram(sz).cap))]

\* a Clone that takes the slice of the original: x.bins = h.bins
cloneStorageShared(xarr, harr) == harr

\* Clone: the array of x.bins is the one newHistogram gave x
cloneStorage(xarr, harr) == xarr

\* histogram.Clone
Clone(store, h, got) ==
    LET n == newHistogram(store, got, h.size)
        arr == cloneStorage(n.x.arr, h.arr)
    IN [x |-> [arr |-> arr, len |-> h.len, size |-> n.x.size, cnt |-> h.cnt,
               min |-> h.min, max |-> h.max],
        store |-> [n.store EXCEPT ![arr] =
                      Written(@, SubSeq(n.store[h.arr], 1, h.len))]]

\* user code calls h.Clone(); got is what histogramPool.Get returns
CloneCall(got) ==
    /\ unit.kind = "clone"
    /\ unit.x = NoHist
    /\ unit.clones < MaxClones
    /\ got \in unit.pool \cup {NoHist}
    /\ LET r == Clone(unit.store, unit.h, got)
       IN unit' = [unit EXCEPT !.store = r.store,
                               !.x = r.x,
                               !.pool = @ \ {got},
                               !.clones = @ + 1,
                               !.reused = r.x.arr <= Len(unit.store),
                               !.last = "Clone"]
    /\ UNCHANGED <<registry, app, garr, held>>

\* user code calls Add(v) on the original
CloneAddOriginal(v) ==
    /\ unit.kind = "clone"
    /\ unit.adds < MaxCloneAdds
    /\ LET hv == Load(unit.store, unit.h)
       IN unit' = [unit EXCEPT
                     !.store[unit.h.arr] = CellsAfterAdd(@, hv, v),
                     !.h = Fields(unit.h.arr, Add(hv, v)),
                     !.adds = @ + 1,
                     !.last = "AddOriginal"]
    /\ UNCHANGED <<registry, app, garr, held>>

\* user code calls Add(v) on the clone
CloneAddClone(v) ==
    /\ unit.kind = "clone"
    /\ unit.x # NoHist
    /\ unit.adds < MaxCloneAdds
    /\ LET xv == Load(unit.store, unit.x)
       IN unit' = [unit EXCEPT
                     !.store[unit.x.arr] = CellsAfterAdd(@, xv, v),
                     !.x = Fields(unit.x.arr, Add(xv, v)),
                     !.adds = @ + 1,
                     !.last = "AddClone"]
    /\ UNCHANGED <<registry, app, garr, held>>

\* user code calls Release on the clone and does not use it again
CloneRelease ==
    /\ unit.kind = "clone"
    /\ unit.x # NoHist
    /\ unit' = [unit EXCEPT !.pool = @ \cup {unit.x},
                            !.x = NoHist,
                            !.reused = FALSE,
                            !.last = "Release"]
    /\ UNCHANGED <<registry, app, garr, held>>

InitClone ==
    /\ NewRegistry
    /\ app = NoApp
    /\ garr = NoSlice
    /\ held = <<>>
    /\ \E sz \in CloneSizes :
          unit = [kind |-> "clone",
                  store |-> <<ZeroBins(FreshHistogram(sz).cap)>>,
                  h |-> Fields(1, FreshHistogram(sz)),
                  x |-> NoHist, pool |-> {}, adds |-> 0, clones |-> 0,
                  reused |-> FALSE, last |-> "none"]

NextClone ==
    \/ \E got \in unit.pool \cup {NoHist} : CloneCall(got)
    \/ \E v \in CloneVals : CloneAddOriginal(v)
    \/ \E v \in CloneVals : CloneAddClone(v)
    \/ CloneRelease

SpecClone == InitClone /\ [][NextClone]_vars

-----------------------------------------------------------------------------
(* src/datadog: the reporter and its client                                *)
(*                                                                         *)
(* The reporter is driven as the registry's flush drives a reporter: Prep, *)
(* Discrete calls and Flush, or, in a cycle that another reporter's error  *)
(* ended, Prep and Discrete calls only. A buffered metric is its name, its *)
(* tags and whether Flush made it up (the value 0 of an expired metric) or *)
(* Discrete reported it. What the server answers to an attempt of the      *)
(* client is "accepted" (one of the four success codes), "denied" (401 or  *)
(* 403), "other" (another status) or "transport" (no response).            *)

MaxCycles == 3        \* Prep calls on the reporter

PostAttempts == 3     \* for i := 1; i < 4; i++

PostOutcomes == {"accepted", "denied", "other", "transport"}

\* Client.post: the status code and whether it returns an error
post(outcome) ==
    [code |-> IF outcome = "transport" THEN "none" ELSE outcome,
     err |-> outcome # "accepted"]

\* Client.Post, line 71: what it returns when no attempt made it return
PostExhausted == "nil"

\* Client.Post, the loop from attempt i on: what it returns, how many
\* attempts it made and whether the server accepted the series
RECURSIVE PostLoop(_, _)
PostLoop(outs, i) ==
    IF i < PostAttempts + 1
    THEN LET r == post(outs[i])
         IN IF ~r.err \/ r.code = "denied"
            THEN [ret |-> IF r.err THEN "err" ELSE "nil", attempts |-> i,
                  accepted |-> ~r.err]
            ELSE PostLoop(outs, i + 1)
    ELSE [ret |-> PostExhausted, attempts |-> PostAttempts, accepted |-> FALSE]

\* Client.Post with the answers outs to its attempts
Post(outs) == PostLoop(outs, 1)

\* the answers Client.Post may get: one for each attempt it makes
PostAnswers ==
    {s \in SeqsUpTo(PostOutcomes, PostAttempts) :
        /\ Len(s) = Post(s \o [j \in 1..PostAttempts |-> "transport"]).attempts
        /\ \A j \in 1..(Len(s) - 1) : s[j] \in {"other", "transport"}
        /\ Len(s) < PostAttempts => s[Len(s)] \in {"accepted", "denied"}}

NoPost == [ret |-> "none", attempts |-> 0, accepted |-> FALSE]

\* the metrics the registry hands to the reporter: "f" without tags and "b"
\* with the tags [b, a]
DatadogInputs == {i \in Inputs : i.tags = <<>> \/ SortStrings(i.tags) # i.tags}

\* a metric expires in the Flush of the cycle that reported it
ExpiredEarly(ref) == ref < 2

\* Flush, line 78: after the decrement, r.refs[metricID] < 1
Expired(ref) == ref < 1

\* Flush, lines 77-83, on the map refs: the map it leaves and the metric IDs
\* it emits a 0 for
Expire(refs) ==
    LET dec == [k \in DOMAIN refs |-> refs[k] - 1]
        gone == {k \in DOMAIN refs : Expired(dec[k])}
    IN [refs |-> [k \in DOMAIN refs \ gone |-> dec[k]], gone |-> gone]

\* the orders in which a range over a map may visit the keys ks
Orders(ks) ==
    {s \in [1..Cardinality(ks) -> ks] : \A i, j \in DOMAIN s : s[i] = s[j] => i = j}

\* the metric Flush appends for the expired metricID
ZeroMetric(metricID) ==
    [name |-> SplitMetricID(metricID).name, tags |-> SplitMetricID(metricID).tags,
     made |-> TRUE]

NewReporter ==
    [kind |-> "datadog", refs |-> EmptyMap, metrics |-> <<>>, open |-> FALSE,
     cycles |-> 0, flushes |-> 0, posts |-> 0,
     cseen |-> {}, cprev |-> {}, seen |-> {}, prev |-> {},
     zeroed |-> <<>>, before |-> <<>>, post |-> NoPost, ret |-> "none"]

\* Reporter.Prep, the first call of a cycle. cprev and cseen keep the metric
\* IDs reported in the previous cycle and in this one
DatadogPrep ==
    /\ unit.kind = "datadog"
    /\ unit.cycles < MaxCycles
    /\ unit' = [unit EXCEPT !.open = TRUE,
                            !.cycles = @ + 1,
                            !.cprev = unit.cseen,
                            !.cseen = {}]
    /\ UNCHANGED <<registry, app, garr, held>>

\* Reporter.Discrete(name, tags, inst)
DatadogDiscrete(i) ==
    /\ unit.kind = "datadog"
    /\ unit.open
    /\ KeyOf(i) \notin unit.cseen
    /\ unit' = [unit EXCEPT
                  !.refs = MapStore(@, MetricID(i.name, i.tags), 2),
                  !.metrics = Append(@, [name |-> i.name, tags |-> i.tags,
                                         made |-> FALSE]),
                  !.cseen = @ \cup {KeyOf(i)},
                  !.seen = @ \cup {KeyOf(i)}]
    /\ UNCHANGED <<registry, app, garr, held>>

\* Reporter.Flush, the last call of a cycle; outs are the answers the
\* attempts of Client.Post get. prev and seen keep the metric IDs reported
\* between the two Flush calls before this one and since the last one
DatadogFlush(outs) ==
    /\ unit.kind = "datadog"
    /\ unit.open
    /\ LET x == Expire(unit.refs)
       IN \E zs \in Orders(x.gone) :
             LET ms == unit.metrics \o [j \in 1..Len(zs) |-> ZeroMetric(zs[j])]
                 p == IF Len(ms) # 0 THEN Post(outs) ELSE NoPost
             IN unit' = [unit EXCEPT
                           !.refs = x.refs,
                           !.metrics = IF p.ret = "nil" THEN <<>> ELSE ms,
                           !.open = FALSE,
                           !.flushes = @ + 1,
                           !.posts = IF Len(ms) # 0 THEN @ + 1 ELSE @,
                           !.prev = unit.seen,
                           !.seen = {},
                           !.zeroed = zs,
                           !.before = ms,
                           !.post = p,
                           !.ret = IF p.ret = "err" THEN "err" ELSE "nil"]
    /\ UNCHANGED <<registry, app, garr, held>>

InitDatadog ==
    /\ NewRegistry
    /\ app = NoApp
    /\ garr = NoSlice
    /\ held = <<>>
    /\ unit = NewReporter

NextDatadog ==
    \/ DatadogPrep
    \/ \E i \in DatadogInputs : DatadogDiscrete(i)
    \/ \E outs \in PostAnswers : DatadogFlush(outs)

SpecDatadog == InitDatadog /\ [][NextDatadog]_vars

-----------------------------------------------------------------------------
(* src/unnamed/part_022: the collector of GC pauses                        *)
(*                                                                         *)
(* The Go runtime keeps the pause of its k-th collection in                *)
(* PauseNs[(k + 255) % 256] and counts the collections in NumGC. The       *)
(* pause of the k-th collection is given the value k here, so that a       *)
(* forwarded value tells which collection it belongs to. NumGC stays far   *)
(* below 2^32 in the model: the uint32 counter does not wrap.              *)

RingLen == 256        \* len(p.mem.PauseNs)

\* the numbers of collections the runtime completes between two calls
GCSteps == {1, 2, 255, 256, 257}

\* the indices i, i + 1, ..., j - 1 a loop "for ; i < j; i++" visits
Indices(i, j) == [t \in 1..(IF i < j THEN j - i ELSE 0) |-> i + t - 1]

\* an Update that never takes the branch of the wrapped buffer
WrapsNever(i, j) == FALSE

\* Update: if i > j, the new entries run over the end of the buffer
Wraps(i, j) == i > j

\* Pauses.Update: the indices of PauseNs whose entries it passes to
\* p.r.Update, in order; numGC is the count the swap returned, memGC
\* the count p.mem.NumGC that ReadMemStats has just read
UpdateIndices(numGC, memGC) ==
    LET i == numGC % RingLen
        j == memGC % RingLen
    IN IF memGC - numGC >= RingLen
       THEN Indices(0, RingLen)
       ELSE IF Wraps(i, j)
            THEN Indices(i, RingLen) \o Indices(0, j)
            ELSE Indices(i, j)

\* the runtime completes k collections
PausesGC(k) ==
    /\ unit.kind = "pauses"
    /\ unit.calls < MaxCalls
    /\ LET c == unit.NumGC
           \* the last of the collections up to c + k whose pause is kept
           \* at the index x
           latest(x) == (c + k) - ((c + k + RingLen - 1 - x) % RingLen)
       IN unit' = [unit EXCEPT
                     !.NumGC = c + k,
                     !.PauseNs = [x \in 1..RingLen |->
                                    IF latest(x - 1) > c THEN latest(x - 1)
                                    ELSE unit.PauseNs[x]],
                     !.calls = @ + 1,
                     !.last = "GC"]
    /\ UNCHANGED <<registry, app, garr, held>>

\* Pauses.Update, under its mutex; was keeps the count the swap returned
PausesUpdate ==
    /\ unit.kind = "pauses"
    /\ unit.calls < MaxCalls
    /\ LET ix == UpdateIndices(unit.n, unit.NumGC)
       IN unit' = [unit EXCEPT
                     !.n = unit.NumGC,
                     !.was = unit.n,
                     !.at = ix,
                     !.fwd = [t \in DOMAIN ix |-> unit.PauseNs[ix[t] + 1]],
                     !.calls = @ + 1,
                     !.last = "Update"]
    /\ UNCHANGED <<registry, app, garr, held>>

InitPauses ==
    /\ NewRegistry
    /\ app = NoApp
    /\ garr = NoSlice
    /\ held = <<>>
    /\ unit = [kind |-> "pauses", n |-> 0, NumGC |-> 0,
               PauseNs |-> [x \in 1..RingLen |-> 0],
               was |-> 0, at |-> <<>>, fwd |-> <<>>, calls |-> 0, last |-> "none"]

NextPauses ==
    \/ \E k \in GCSteps : PausesGC(k)
    \/ PausesUpdate

SpecPauses == InitPauses /\ [][NextPauses]_vars

-----------------------------------------------------------------------------
(* Properties of the flush cycle *)

IsEmit(c) == c.op \in {"Discrete", "Sample"}

\* the positions in log of the calls of operation op to reporter rep
CallsOf(rep, op) == {i \in 1..Len(log) : log[i].rep = rep /\ log[i].op = op}

\* the positions in log of the Discrete/Sample calls that hand key k to rep
Deliveries(rep, k) ==
    {i \in 1..Len(log) : log[i].rep = rep /\ log[i].key = k /\ IsEmit(log[i])}

\* flush has returned nil
CycleDone == lpc = "done" /\ ~cerr

(* C1: in a flush cycle every Prep call comes before every Discrete/Sample *)
(* call and every Flush call after all of them; when the cycle has         *)
(* returned without error, each reporter of the cycle (the reporters       *)
(* subscribed when the cycle copied the list) has received exactly one     *)
(* Prep and exactly one Flush.                                             *)
C1_PrepEmitFlushOrder ==
    /\ \A i, j \in 1..Len(log) :
          /\ (log[i].op = "Prep" /\ IsEmit(log[j])) => i < j
          /\ (IsEmit(log[i]) /\ log[j].op = "Flush") => i < j
    /\ \A i \in 1..Len(log) : log[i].rep \in Range(reps)
    /\ CycleDone =>
          \A r \in Range(reps) :
             /\ Cardinality(CallsOf(r, "Prep")) = 1
             /\ Cardinality(CallsOf(r, "Flush")) = 1

\* a cycle with two reporters has returned nil after it delivered instruments
C1_Witness ==
    /\ CycleDone
    /\ Len(reps) = 2
    /\ \E i \in 1..Len(log) : IsEmit(log[i])

(* C2: only keys that were in the registry at the drain swap are handed to *)
(* reporters, and when the cycle has returned without error every one of   *)
(* them has been handed to every reporter of the cycle by exactly one      *)
(* Discrete or Sample call.                                                *)
C2_DrainedDeliveredOnce ==
    /\ \A i \in 1..Len(log) : IsEmit(log[i]) => log[i].key \in drainedKeys
    /\ CycleDone =>
          \A k \in drainedKeys, r \in Range(reps) :
             Cardinality(Deliveries(r, k)) = 1

\* a cycle that drained two instruments for two reporters has returned nil
C2_Witness ==
    /\ CycleDone
    /\ Cardinality(drainedKeys) = 2
    /\ Len(reps) = 2
    /\ Len(log) = 8

(* C3: an Update applied after the drain swap is not reflected in what the *)
(* cycle delivers: the first reporter that is handed an instrument gets    *)
(* the value the instrument held at the swap.                              *)
C3_LateUpdateNotDelivered ==
    sent.got # <<>> => sent.got[1] = sent.at[1]

(* C4: a Counter that was updated before the cycle is snapshotted once:    *)
(* all reporters of the cycle are handed the same value for it.            *)
C4_SameSnapshotForAll ==
    (sent.op = "Discrete" /\ sent.at[1] > 0) =>
       \A i, j \in 1..Len(sent.got) : sent.got[i] = sent.got[j]

(* C5: an instrument stored by Register or Fetch while a flush cycle runs  *)
(* is never lost: the store puts it into the registry's map, the drain     *)
(* swap moves every entry of that map into the drained map, and an entry   *)
(* leaves the drained map only when every reporter of the cycle has been   *)
(* handed it.                                                              *)
C5_StoredNeverLost ==
    [][ /\ \A i \in Inputs, kind \in Kinds, size \in ResSizes :
             RegisterInCycle(i, kind, size) =>
                (KeyOf(i) \in DOMAIN instruments' /\ drained' = drained)
        /\ \A kind \in Kinds, size \in ResSizes :
             FetchWriteInCycle(1, kind, size) =>
                (fpc[1] \in DOMAIN instruments' /\ drained' = drained)
        /\ \A k \in DOMAIN instruments :
             \/ k \in DOMAIN instruments'
             \/ lpc = "reset" /\ reps = <<>>
             \/ lpc = "reset" /\ k \in DOMAIN drained' /\ drained'[k] = instruments[k]
        /\ \A k \in DOMAIN drained :
             \/ k \in DOMAIN drained'
             \/ \A r \in Range(reps) :
                   \E j \in 1..Len(log') :
                      /\ log'[j].rep = r
                      /\ log'[j].key = k
                      /\ IsEmit(log'[j])
                      /\ ~log'[j].err
      ]_vars

(* C9: a reporter call that returns an error is the last call of its       *)
(* cycle: flush has returned, with an error, and calls no reporter after   *)
(* it; and a cycle returns an error only when its last call failed.        *)
C9_ErrorEndsCycle ==
    /\ \A i \in 1..Len(log) :
          log[i].err => (i = Len(log) /\ lpc \in {"done", "exited"} /\ cerr)
    /\ cerr => (log # <<>> /\ log[Len(log)].err)

\* the first of two reporters failed a Discrete/Sample call: the second
\* reporter was not handed the instrument and nobody received Flush
C9_Witness ==
    /\ lpc = "done"
    /\ cerr
    /\ Len(reps) = 2
    /\ IsEmit(log[Len(log)])
    /\ log[Len(log)].rep = reps[1]
    /\ Cardinality(drainedKeys) = 2

(* C11: a cycle aborted by a reporter error is retried: when flush has     *)
(* returned an error, every instrument the cycle drained and did not hand  *)
(* to all its reporters is still in a map of the registry, from which a    *)
(* later cycle delivers it.                                                *)
C11_AbortedCycleRetried ==
    (lpc = "done" /\ cerr) =>
       \A k \in drainedKeys :
          \/ \A r \in Range(reps) :
                \E j \in Deliveries(r, k) : ~log[j].err
          \/ k \in DOMAIN instruments \cup DOMAIN drained

-----------------------------------------------------------------------------
(* Properties of Fetch *)

(* C6: Fetch under the write lock is a get-or-create: it invokes the       *)
(* factory only when the key is absent, leaves an instrument that is       *)
(* present in place whatever the factory would build, and returns the      *)
(* instrument the registry holds under the key when it returns; the fast   *)
(* path stores nothing.                                                    *)
C6_FetchGetOrCreate ==
    [][ /\ \A t \in Threads, kind \in Kinds, size \in ResSizes :
             FetchWrite(t, kind, size) =>
                LET key == fpc[t]
                    r == FetchLocked(instruments, key, NewInstrument(kind, size))
                IN /\ r.v = instruments'[key]
                   /\ r.made => key \notin DOMAIN instruments
                   /\ key \in DOMAIN instruments =>
                         instruments'[key] = instruments[key]
                   /\ \A k \in DOMAIN instruments \ {key} :
                         k \in DOMAIN instruments' /\ instruments'[k] = instruments[k]
        /\ \A t \in Threads, i \in Inputs :
             FetchRead(t, i) => instruments' = instruments
      ]_vars

\* thread 2 missed a key in its first check and waits for the write lock,
\* while the registry now holds under that key a Counter that was updated
C6_Witness ==
    /\ fpc[1] = NoKey
    /\ fpc[2] # NoKey
    /\ fpc[2] \in DOMAIN instruments
    /\ instruments[fpc[2]].kind = "Counter"
    /\ instruments[fpc[2]].count = 1

(* C12: a typed helper that found an instrument of another kind under     *)
(* its key returns normally: it returns a newly built instrument of the    *)
(* kind it was asked for, leaves the registry's map as it is and offers    *)
(* one error to the error channel.                                         *)
C12_HelperMismatchDetached ==
    [][ (hpc.stage = "mismatch" /\ hpc' # hpc) =>
           /\ panicked' = "none"
           /\ hpc'.stage = "returned"
           /\ hpc'.ret = NewInstrument(hpc.kind, hpc.size)
           /\ instruments' = instruments
           /\ errq' = IF errq < ErrorsCap THEN errq + 1 ELSE errq
      ]_vars

-----------------------------------------------------------------------------
(* Properties of Close *)

(* C7: when Close has returned, the loop has run one final cycle and has   *)
(* returned, Close has returned the error of that cycle (nil when it had   *)
(* none), and no reporter is called any more.                              *)
C7_CloseReturnsAfterFinalCycle ==
    [][ closer' = "returned" =>
           /\ lpc' = "exited"
           /\ finals' = 1
           /\ closeRes' = (IF cerr' THEN "err" ELSE "nil")
           /\ closer = "returned" => log' = log
      ]_vars

\* Close has returned the error of a final cycle in which a reporter failed
C7_Witness ==
    /\ closer = "returned"
    /\ closeRes = "err"
    /\ lpc = "exited"
    /\ log # <<>>

(* C8: Close is idempotent: a call of Close made after Close has returned  *)
(* does not panic and starts no further final cycle.                       *)
C8_CloseIdempotent ==
    [][ closer = "returned" => (panicked' = "none" /\ finals' = finals) ]_vars

-----------------------------------------------------------------------------
(* Properties of the error channel *)

(* C10: a reporter error in a periodic cycle does not stop or block the    *)
(* loop: handleError always returns, the loop goes back to its select      *)
(* with the error buffered when the channel had room and dropped when it   *)
(* was full, and a loop waiting in select can always start the next        *)
(* cycle.                                                                  *)
C10_ErrorNeverStopsLoop ==
    /\ [](lpc = "done" => ENABLED LoopFinish)
    /\ [](lpc = "select" => ENABLED LoopTick)
    /\ [][ (lpc = "done" /\ mode = "tick" /\ cerr /\ lpc' # lpc) =>
              /\ lpc' = "select"
              /\ errq' = IF errq < ErrorsCap THEN errq + 1 ELSE errq
         ]_vars

\* the error of the last cycle was dropped, the channel being full, and the
\* loop is in the next cycle
C10_Witness ==
    /\ dropped
    /\ errq = ErrorsCap
    /\ lpc = "prep"

-----------------------------------------------------------------------------
(* Properties of naming *)

(* C13: at flush, an instrument whose registered name begins with the      *)
(* reserved '|' is emitted under that name without its leading '|' and     *)
(* without the registry's prefix, and its tag list is the global tags      *)
(* followed by its own tags.                                               *)
C13_ReservedNameEmittedBare ==
    (app.fn = "flush" /\ Head(app.name) = Bar) =>
       /\ app.outName = Tail(app.name)
       /\ app.outTags = app.rtags \o SortStrings(app.tags)

(* C14: for every instrument whose name does not begin with the reserved   *)
(* '|', the name handed to reporters is the registry's prefix followed by  *)
(* the registered name, and the tag list is the registry's global tags     *)
(* followed by the instrument's own tags in ascending order.               *)
C14_PrefixedNameGlobalTags ==
    (app.fn = "flush" /\ Head(app.name) # Bar) =>
       /\ app.outName = app.prefix \o app.name
       /\ app.outTags = app.rtags \o SortStrings(app.tags)

(* C17: SplitMetricID(MetricID(name, tags)) is the name and the tags in    *)
(* ascending order, for every name and every tag list.                     *)
C17_SplitInvertsMetricID ==
    app.fn = "split" =>
       /\ app.outName = app.name
       /\ app.outTags = SortStrings(app.tags)

(* C15: the tag list handed to a reporter for one instrument keeps its     *)
(* contents for the rest of the cycle, whatever is emitted after it and    *)
(* whatever the capacity of the registry's global tag slice.               *)
C15_DeliveredTagsKept ==
    \A i \in 1..Len(held) : Contents(held[i]) = held[i].was

-----------------------------------------------------------------------------
(* Properties of the registry's keys *)

\* the same name and the same tags, in any order
SameMetric(i, j) ==
    /\ i.name = j.name
    /\ Len(i.tags) = Len(j.tags)
    /\ \A t \in Range(i.tags) \cup Range(j.tags) :
          Cardinality({x \in DOMAIN i.tags : i.tags[x] = t})
             = Cardinality({x \in DOMAIN j.tags : j.tags[x] = t})

(* C16: two calls with the same name and the same tags in any order        *)
(* address the same entry: after Register every order of the tags reads    *)
(* the registered instrument and an entry that existed under another       *)
(* order is replaced, not added to (Size is unchanged); after Unregister   *)
(* no order of the tags finds an entry; Get returns what every order       *)
(* reads. The empty sequence stands for both the nil and the empty tag     *)
(* list, which MetricID treats alike (len(tags) == 0).                     *)
C16_KeysIgnoreTagOrder ==
    \A j \in Inputs :
       (app.fn # "none" /\ SameMetric(app.i, j)) =>
          /\ app.fn = "Register" =>
                /\ Get(instruments, j) = app.arg
                /\ Get(app.before, j) # NoInst =>
                      Size(instruments) = Size(app.before)
          /\ app.fn = "Unregister" =>
                /\ Get(instruments, j) = NoInst
                /\ Get(app.before, j) # NoInst =>
                      Size(instruments) = Size(app.before) - 1
          /\ app.fn = "Get" => Get(instruments, j) = app.out

\* "b" was registered with the tags [a, b] and then with the tags [b, a],
\* and the registry holds one instrument
C16_Witness ==
    /\ app.fn = "Register"
    /\ app.last.fn = "Register"
    /\ app.i.tags # app.last.i.tags
    /\ SameMetric(app.i, app.last.i)
    /\ Size(app.before) = 1
    /\ Size(instruments) = 1

(* C18: Register overwrites: after Register(name, tags, y), Get(name,      *)
(* tags) returns y, whatever was registered under the key before, and Size *)
(* counts the key once; Get of an absent key returns nothing.              *)
C18_RegisterOverwrites ==
    /\ app.fn = "Register" =>
          /\ Get(instruments, app.i) = app.arg
          /\ Size(instruments) =
                Size(app.before) + (IF Get(app.before, app.i) = NoInst THEN 1 ELSE 0)
          /\ \A j \in Inputs :
                KeyOf(j) # KeyOf(app.i) => Get(instruments, j) = Get(app.before, j)
    /\ app.fn = "Get" =>
          /\ KeyOf(app.i) \notin DOMAIN instruments => app.out = NoInst
          /\ KeyOf(app.i) \in DOMAIN instruments => app.out = instruments[KeyOf(app.i)]

\* an instrument was registered over a different one
C18_Witness ==
    /\ app.fn = "Register"
    /\ Get(app.before, app.i) # NoInst
    /\ Get(app.before, app.i) # app.arg
    /\ Get(instruments, app.i) = app.arg

-----------------------------------------------------------------------------
(* Properties of the instruments *)

RECURSIVE SumUpdates(_, _, _)
\* the sum of the values of the Update calls among calls[a..b]
SumUpdates(calls, a, b) ==
    IF a > b THEN 0
    ELSE (IF calls[b].op = "Update" THEN calls[b].v ELSE 0)
            + SumUpdates(calls, a, b - 1)

\* the position of the last Snapshot before position n, 0 when there is none
PrevSnapshot(calls, n) ==
    LET at == {i \in 1..(n - 1) : calls[i].op = "Snapshot"}
    IN IF at = {} THEN 0 ELSE CHOOSE i \in at : \A j \in at : j <= i

(* C19: in every interleaving of Update and Snapshot calls on a Counter,   *)
(* each Snapshot returns the sum of the updates since the previous         *)
(* Snapshot (0 when there was none), and the updates no Snapshot has       *)
(* returned yet are all held for the next one: every Update is counted in  *)
(* exactly one Snapshot.                                                   *)
C19_CounterCountsOnce ==
    unit.kind = "Counter" =>
       LET calls == unit.calls
           n == Len(calls) + 1
       IN /\ \A i \in DOMAIN calls :
                calls[i].op = "Snapshot" =>
                   calls[i].v = SumUpdates(calls, PrevSnapshot(calls, i) + 1, i - 1)
          /\ unit.inst.count = SumUpdates(calls, PrevSnapshot(calls, n) + 1, n - 1)

\* updates, a Snapshot that returned their sum, and a Snapshot right after
\* it that returned 0
C19_Witness ==
    /\ unit.kind = "Counter"
    /\ \E i \in DOMAIN unit.calls :
          /\ i > 2
          /\ unit.calls[i].op = "Snapshot" /\ unit.calls[i].v = 0
          /\ unit.calls[i - 1].op = "Snapshot" /\ unit.calls[i - 1].v # 0
          /\ unit.calls[i - 2].op = "Update"

(* C20: when every Update call on a Derive created with v0 has returned,   *)
(* the value stored is the argument of one of the calls (v0 when there was *)
(* none) and the total forwarded to the Rate is the value stored minus v0, *)
(* however the calls interleaved.                                          *)
C20_DeriveForwardsDifference ==
    (unit.kind = "Derive" /\ \A t \in Threads : unit.th[t] = Idle) =>
       /\ unit.inst.rate.count = unit.inst.value - unit.v0
       /\ unit.inst.value \in Range(unit.stored) \cup {unit.v0}
       /\ unit.stored = <<>> => unit.inst.value = unit.v0

\* three Update calls have returned, two of them overlapped: the call that
\* forwarded last is not the one that stored last
C20_Witness ==
    /\ unit.kind = "Derive"
    /\ \A t \in Threads : unit.th[t] = Idle
    /\ Len(unit.stored) = 3
    /\ unit.inst.value # unit.v0
    /\ unit.inst.value # unit.stored[3]

RECURSIVE SumSeq(_)
SumSeq(s) == IF s = <<>> THEN 0 ELSE s[1] + SumSeq(Tail(s))

(* C21: a Rate.Snapshot returns 0 whenever no Update occurred since the    *)
(* previous Snapshot or since creation, and a Snapshot resets the count:   *)
(* it counted the updates since the previous Snapshot and no others, and   *)
(* the count holds the updates made after it.                              *)
C21_RateZeroWithoutUpdate ==
    unit.kind = "Rate" =>
       /\ unit.inst.count.count = SumSeq(unit.pending)
       /\ unit.last.op = "Snapshot" =>
             /\ unit.last.c = SumSeq(unit.last.pending)
             /\ unit.last.pending = <<>> => unit.last.out = 0

\* how often x occurs in the sequence s
Occurrences(s, x) == Cardinality({i \in DOMAIN s : s[i] = x})

(* C22: a Reservoir.Snapshot returns, in ascending order, min(n, capacity) *)
(* of the n values passed to Update since the previous Snapshot, each at   *)
(* most as often as it was passed; it resets the reservoir, so that a      *)
(* Snapshot holds no value of an earlier window and a Snapshot right after *)
(* a Snapshot is empty.                                                    *)
C22_ReservoirWindow ==
    unit.kind = "Reservoir" =>
       /\ unit.inst.size = Len(unit.window)
       /\ unit.last.op = "Snapshot" =>
             LET ret == unit.last.ret
                 window == unit.last.window
             IN /\ Len(ret) = Min2(Len(window), Len(unit.inst.values))
                /\ \A i \in 1..(Len(ret) - 1) : ret[i] <= ret[i + 1]
                /\ \A x \in Range(ret) : Occurrences(ret, x) <= Occurrences(window, x)
                /\ window = <<>> => ret = <<>>

\* a Snapshot of a reservoir of capacity 2 that was passed three values,
\* the last of which replaced an earlier one
C22_Witness ==
    /\ unit.kind = "Reservoir"
    /\ unit.last.op = "Snapshot"
    /\ Len(unit.last.window) = 3
    /\ Len(unit.last.ret) = 2
    /\ unit.last.window[3] \in Range(unit.last.ret)
    /\ unit.last.window[1] \notin Range(unit.last.ret)

-----------------------------------------------------------------------------
(* Properties of the histogram *)

IsHist == unit.kind = "histogram"

HasRead == IsHist /\ app.fn = "read"

\* the values of the bins
BinValues == {unit.h.bins[i].v : i \in DOMAIN unit.h.bins}

\* the arguments of Quantile that are quantiles
UnitQs == {q \in Qs : RLeq(R(0), q) /\ RLeq(q, R(1))}

(* C23: after every completed Add on a histogram of capacity size the      *)
(* number of bins is at most size; inside Add, before prune, it is at most *)
(* size + 1.                                                               *)
C23_BinsWithinCapacity ==
    IsHist =>
       /\ Len(unit.h.bins) <= unit.h.size
       /\ unit.peak <= unit.h.size + 1

\* an Add that reached size + 1 bins and pruned them to size
C23_Witness ==
    /\ IsHist
    /\ unit.h.size = 2
    /\ unit.peak = 3
    /\ Len(unit.h.bins) = 2

(* C24: after any sequence of Add calls since the last Reset, the sum of   *)
(* the absolute bin weights is Count(), which is the number of Add calls.  *)
C24_WeightsSumToCount ==
    IsHist =>
       /\ SumSeq([i \in DOMAIN unit.h.bins |-> Abs(unit.h.bins[i].w)]) = Count(unit.h)
       /\ Count(unit.h) = unit.adds

\* a reused histogram that holds a merged bin and an exact bin of weight 2
C24_Witness ==
    /\ IsHist
    /\ unit.reused
    /\ unit.adds = MaxAdds
    /\ \E i, j \in DOMAIN unit.h.bins : unit.h.bins[i].w < 0 /\ unit.h.bins[j].w = 2

(* C25: after any sequence of Add calls the bins are strictly increasing   *)
(* by value and every bin value lies between Min() and Max().              *)
C25_BinsStrictlySorted ==
    IsHist =>
       /\ \A i \in 1..(Len(unit.h.bins) - 1) :
             RLess(unit.h.bins[i].v, unit.h.bins[i + 1].v)
       /\ \A i \in DOMAIN unit.h.bins :
             /\ RLeq(Min(unit.h), unit.h.bins[i].v)
             /\ RLeq(unit.h.bins[i].v, Max(unit.h))

\* a merged bin strictly between Min() and an exact bin at Max()
C25_Witness ==
    /\ IsHist
    /\ Len(unit.h.bins) = 2
    /\ unit.h.bins[1].w < 0
    /\ RLess(Min(unit.h), unit.h.bins[1].v)
    /\ unit.h.bins[2].w > 0
    /\ unit.h.bins[2].v = Max(unit.h)

(* C26: for every non-empty histogram and every q in [0, 1],               *)
(* Min() <= Quantile(q) <= Max().                                          *)
C26_QuantileWithinBounds ==
    (HasRead /\ app.count > 0) =>
       \A q \in UnitQs :
          /\ SurdLeq(SurdOf(app.min), app.quantile[q], {})
          /\ SurdLeq(app.quantile[q], SurdOf(app.max), {})

\* a quantile that is neither rational nor a bound: resolve took a root
C26_Witness ==
    /\ HasRead
    /\ \E q \in UnitQs :
          /\ ~app.quantile[q].nan
          /\ SurdCmp(SurdOf(app.min), app.quantile[q]) < 0
          /\ SurdCmp(app.quantile[q], SurdOf(app.max)) < 0
          /\ RSign(app.quantile[q].y) # 0
          /\ app.quantile[q].d \notin {R(0), R(1), R(4), R(9), R(16)}

(* C27: for every non-empty histogram Quantile is non-decreasing in q:     *)
(* q1 <= q2 in [0, 1] implies Quantile(q1) <= Quantile(q2).                *)
C27_QuantileMonotone ==
    (HasRead /\ app.count > 0) =>
       \A q1, q2 \in UnitQs :
          RLeq(q1, q2) => SurdLeq(app.quantile[q1], app.quantile[q2], BinValues)

\* a histogram with a merged and an exact bin whose quantiles rise
\* strictly three times
C27_Witness ==
    /\ HasRead
    /\ \E i, j \in DOMAIN unit.h.bins : unit.h.bins[i].w < 0 /\ unit.h.bins[j].w > 0
    /\ \E q1, q2, q3, q4 \in UnitQs :
          /\ SurdCmp(app.quantile[q1], app.quantile[q2]) < 0
          /\ SurdCmp(app.quantile[q2], app.quantile[q3]) < 0
          /\ SurdCmp(app.quantile[q3], app.quantile[q4]) < 0

(* C28: Quantile(q) returns 0 when q < 0 or q > 1, and on a non-empty      *)
(* histogram Quantile(0) returns Min() and Quantile(1) returns Max().      *)
C28_QuantileEdges ==
    HasRead =>
       /\ \A q \in Qs \ UnitQs : app.quantile[q] = SurdOf(R(0))
       /\ app.count > 0 =>
             /\ app.quantile[R(0)] = SurdOf(app.min)
             /\ app.quantile[R(1)] = SurdOf(app.max)

\* a histogram whose Min() and Max() are not 0 and differ
C28_Witness ==
    /\ HasRead
    /\ app.count > 1
    /\ RSign(app.min) > 0
    /\ RLess(app.min, app.max)
    /\ Len(unit.h.bins) = 2

(* C29: a histogram with count 0, freshly created, reset, or handed out    *)
(* again by newHistogram after a Release, has no bins and returns 0 from   *)
(* Count, Min, Max, Mean, Variance and from Quantile(q) for every q.       *)
C29_EmptyHistogramIsZero ==
    /\ (IsHist /\ unit.h.cnt = 0) => unit.h.bins = <<>>
    /\ (HasRead /\ unit.h.cnt = 0) =>
          /\ app.count = 0
          /\ app.min = R(0) /\ app.max = R(0)
          /\ app.mean = R(0) /\ app.variance = R(0)
          /\ \A q \in Qs : app.quantile[q] = SurdOf(R(0))

\* a histogram that held values, was released, handed out again and read
C29_Witness ==
    /\ HasRead
    /\ unit.reused
    /\ unit.h.cnt = 0

(* C30: Variance() is non-negative for every histogram reachable by a      *)
(* sequence of Add calls, also when it holds merged bins.                  *)
C30_VarianceNonNegative ==
    HasRead => RSign(app.variance) >= 0

-----------------------------------------------------------------------------
(* Properties of the registry while Close runs and while cycles run *)

(* C31: no Update of a Counter that user code got from the registry is    *)
(* lost or counted twice: when Close has returned, the values the reporter *)
(* was handed for the metric add up to the sum of the Update arguments.    *)
C31_NoUpdateLost ==
    (unit.kind = "ledger" /\ unit.closer = "returned") =>
        unit.delivered = unit.applied

(* C32: no send on the closed errors channel: a typed helper that hits a   *)
(* kind mismatch after Close was called, like any other path into          *)
(* handleError, returns and does not panic.                                *)
C32_NoSendOnClosedErrors == panicked # "send on closed channel"

(* C33: a reporter that Subscribe adds while a flush cycle runs gets no    *)
(* call from that cycle: every call of a cycle goes to a reporter of the   *)
(* list the cycle copied when it started, every Discrete, Sample and Flush *)
(* call follows a Prep call of the same cycle to the same reporter, and    *)
(* the next cycle starts with the registry's whole list.                   *)
C33_LateSubscriberWaits ==
    [][ /\ Len(log') = Len(log) + 1 =>
              LET c == log'[Len(log')]
              IN /\ c.rep \in Range(reps)
                 /\ c.op # "Prep" =>
                       \E j \in 1..Len(log) :
                          log[j].op = "Prep" /\ log[j].rep = c.rep
        /\ (lpc = "select" /\ lpc' # "select") => reps' = reporters
        /\ (reporters' # reporters /\ lpc \notin {"select", "exited"}) =>
              (reps' = reps /\ log' = log)
      ]_vars

\* a cycle has delivered an instrument to its one reporter and is about to
\* call Flush, while the registry has a second reporter, subscribed since
\* the cycle started
C33_Witness ==
    /\ lpc = "flush"
    /\ reps = <<1>>
    /\ reporters = <<1, 2>>
    /\ \E j \in 1..Len(log) : log[j].op \in {"Discrete", "Sample"}

-----------------------------------------------------------------------------
(* Properties of the histogram's insert, prune and Clone *)

(* C34: insert adds 1 to the weight of the bin whose value is exactly v    *)
(* only if that bin is exact; in every other case, also when the bin with  *)
(* the value v is a merged one, it inserts the new exact bin (v, 1) at the *)
(* position the search returned.                                           *)
C34_InsertRule ==
    IsHist =>
        \A v \in HistVals :
           LET bins == unit.h.bins
               pos == search(unit.h, v)
               n == Len(bins)
               exact == pos < n /\ bins[pos + 1].v = v /\ bins[pos + 1].w > 0
           IN insert(unit.h, v).bins =
                 IF exact
                 THEN [bins EXCEPT ![pos + 1].w = @ + 1]
                 ELSE SubSeq(bins, 1, pos) \o <<[w |-> 1, v |-> v]>>
                         \o SubSeq(bins, pos + 1, n)

\* the distance between the bins i and i + 1 of a sequence of bins
Gap(bins, i) == RSub(bins[i + 1].v, bins[i].v)

(* C35: when the insert of an Add leaves size + 1 bins, prune merges one   *)
(* pair: the two neighbours at the smallest distance, the first such pair  *)
(* when several are at that distance, become one bin, marked merged, whose *)
(* absolute weight is the sum of their absolute weights and whose value is *)
(* their weighted mean; every other bin stays as it is. With fewer bins    *)
(* prune changes nothing.                                                  *)
C35_PruneRule ==
    IsHist =>
        \A v \in HistVals :
           LET a == AddInsert(unit.h, v)
               p == prune(a)
               n == Len(a.bins)
           IN IF n = a.size + 1
              THEN /\ Len(p.bins) = n - 1
                   /\ \E i \in 1..(n - 1) :
                         LET b1 == a.bins[i]
                             b2 == a.bins[i + 1]
                             w == Abs(b1.w) + Abs(b2.w)
                         IN /\ \A j \in 1..(n - 1) : RLeq(Gap(a.bins, i), Gap(a.bins, j))
                            /\ \A j \in 1..(i - 1) : RLess(Gap(a.bins, i), Gap(a.bins, j))
                            /\ p.bins[i].w = -w
                            /\ RMul(p.bins[i].v, R(w)) =
                                  RAdd(RMul(R(Abs(b1.w)), b1.v), RMul(R(Abs(b2.w)), b2.v))
                            /\ \A k \in 1..(i - 1) : p.bins[k] = a.bins[k]
                            /\ \A k \in (i + 1)..(n - 1) : p.bins[k] = a.bins[k + 1]
              ELSE p = a

\* a histogram of capacity 2 after Add(1), Add(4) and Add(7): the two pairs
\* were at the same distance and the first one was merged
C35_Witness ==
    /\ IsHist
    /\ unit.h.size = 2
    /\ unit.h.cnt = 3
    /\ unit.h.bins = <<[w |-> -2, v |-> Rat(5, 2)], [w |-> 1, v |-> R(7)]>>

(* C36: merging never changes the mean: Mean() times Count() is the sum of *)
(* the values added since the histogram was created or reset.              *)
C36_MeanIsExact ==
    IsHist => RMul(Mean(unit.h), R(Count(unit.h))) = unit.sum

\* a histogram with a merged bin beside an exact one, after four Add calls
C36_Witness ==
    /\ IsHist
    /\ unit.adds = 4
    /\ \E i, j \in DOMAIN unit.h.bins : unit.h.bins[i].w < -1 /\ unit.h.bins[j].w > 0

\* what user code can read of a histogram: its capacity, count, bounds and
\* bins
Seen(store, p) ==
    [size |-> p.size, cnt |-> p.cnt, min |-> p.min, max |-> p.max,
     bins |-> SubSeq(store[p.arr], 1, p.len)]

(* C37: Clone returns a histogram with the capacity, count, min, max and   *)
(* bins of the original and leaves the original as it is; an Add on the    *)
(* original afterwards does not change the clone and an Add on the clone   *)
(* does not change the original, whether newHistogram built the clone or   *)
(* took it from the pool.                                                  *)
C37_CloneIndependent ==
    [][ unit.kind = "clone" =>
          /\ unit'.clones = unit.clones + 1 =>
                /\ Seen(unit'.store, unit'.x) = Seen(unit.store, unit.h)
                /\ Seen(unit'.store, unit'.h) = Seen(unit.store, unit.h)
          /\ (unit'.adds = unit.adds + 1 /\ unit'.last = "AddOriginal"
                 /\ unit.x # NoHist) =>
                Seen(unit'.store, unit'.x) = Seen(unit.store, unit.x)
          /\ (unit'.adds = unit.adds + 1 /\ unit'.last = "AddClone") =>
                Seen(unit'.store, unit'.h) = Seen(unit.store, unit.h)
      ]_vars

\* a clone taken from the pool, of an original that held values, after an
\* Add on one of the two that the other does not show
C37_Witness ==
    /\ unit.kind = "clone"
    /\ unit.x # NoHist
    /\ unit.reused
    /\ unit.last \in {"AddOriginal", "AddClone"}
    /\ unit.x.cnt > 0
    /\ unit.h.cnt > 0
    /\ Seen(unit.store, unit.x) # Seen(unit.store, unit.h)

-----------------------------------------------------------------------------
(* Properties of the datadog reporter and its client *)

IsDatadog == unit.kind = "datadog"

\* the Flush of a cycle has just returned
Flushed == IsDatadog /\ unit'.flushes = unit.flushes + 1

\* the sequence s names each of the elements of ks once and nothing else
OnceEach(s, ks) ==
    /\ Len(s) = Cardinality(ks)
    /\ {s[j] : j \in DOMAIN s} = ks

(* C38: the Flush of a cycle emits one metric of value 0 for each metric   *)
(* ID that Discrete reported in the cycle before and not in this cycle,    *)
(* and for no other: none for a metric reported in this cycle, none for a  *)
(* metric that expired in an earlier cycle and was not reported since.     *)
C38_ExpiryByCycle ==
    [][ Flushed => OnceEach(unit'.zeroed, unit.cprev \ unit.cseen) ]_vars

(* C38, amended: the Flush call emits one metric of value 0 for each       *)
(* metric ID that Discrete reported between the two Flush calls before it  *)
(* and not since the last Flush call, and for no other; the metrics are    *)
(* the last ones of the series it hands to Client.Post.                    *)
C38_ExpiryByFlush ==
    [][ Flushed =>
           /\ OnceEach(unit'.zeroed, unit.prev \ unit.seen)
           /\ unit'.before = unit.metrics \o
                 [j \in 1..Len(unit'.zeroed) |-> ZeroMetric(unit'.zeroed[j])]
      ]_vars

\* a Flush has emitted a 0 for a metric that was reported neither in its
\* cycle nor in the cycle before, which had no Flush
C38_Witness ==
    /\ IsDatadog
    /\ ~unit.open
    /\ unit.flushes = 2
    /\ unit.cycles = 3
    /\ Len(unit.zeroed) > 0
    /\ unit.cprev = {}
    /\ unit.before[Len(unit.before)].made

(* C40: Client.Post returns an error whenever the server did not accept    *)
(* the series, also when each of its attempts ended in a transport error   *)
(* or a status that is no success, and Flush empties the buffer of the     *)
(* reporter only when the series was accepted.                             *)
C40_PostReportsFailure ==
    (IsDatadog /\ unit.post # NoPost) =>
        /\ unit.post.ret = "err" <=> ~unit.post.accepted
        /\ unit.metrics = <<>> => unit.post.accepted

-----------------------------------------------------------------------------
(* Properties of the collector of GC pauses *)

\* an Update of the collector has just returned; d collections were
\* completed since the Update before it
Collected == unit.kind = "pauses" /\ unit.last = "Update"

(* C39: an Update forwards min(d, 256) pauses to the reservoir, d being    *)
(* the number of collections completed since the Update before. For        *)
(* d < 256 they are the entries at the indices (previous count mod 256)    *)
(* to ((current count - 1) mod 256), over the end of the buffer where the  *)
(* range wraps, which are the pauses of just these d collections; for      *)
(* d >= 256 they are all entries of the buffer, each once.                 *)
C39_PausesForwarded ==
    Collected =>
        LET d == unit.n - unit.was
        IN /\ Len(unit.fwd) = Min2(d, RingLen)
           /\ Len(unit.at) = Len(unit.fwd)
           /\ IF d < RingLen
              THEN /\ unit.at = [t \in 1..d |-> (unit.was + t - 1) % RingLen]
                   /\ d > 0 => unit.at[d] = (unit.n - 1) % RingLen
                   /\ unit.fwd = [t \in 1..d |-> unit.was + t]
              ELSE {unit.at[t] : t \in DOMAIN unit.at} = 0..(RingLen - 1)

\* an Update after two collections, of which the first has its pause in the
\* last entry of the buffer and the second in the first entry
C39_Witness ==
    /\ Collected
    /\ unit.was = 255
    /\ unit.n = 257
    /\ unit.at = <<255, 0>>

====
